---- MODULE Spec2Model ----
(***************************************************************************)
(* A model of the TagStudio library core                                   *)
(* (tagstudio/src/core/library/alchemy/library.py): the tables of the      *)
(* library database, the operations of class Library on them, and the      *)
(* properties the specification states about them.                         *)
(*                                                                         *)
(* Strings are sequences of one-character strings, so that LIKE patterns,  *)
(* case folding and path suffixes are computed instead of assumed.  An     *)
(* optional value (a nullable column, an argument that may be None) is a   *)
(* set with at most one element.                                           *)
(***************************************************************************)
EXTENDS Integers, Sequences, FiniteSets, TLC

VARIABLES
    tags,         \* table tags: rows [id, name, shorthand]
    tag_seq,      \* autoincrement sequence of table tags (highest id ever inserted)
    tag_aliases,  \* table tag_aliases: rows [id, name, tag_id]
    tag_subtags,  \* table tag_subtags (TagSubtag): rows [parent_id, child_id]
    entries,      \* table entries: rows [id, path, folder_id, suffix]
    folders,      \* table folders: rows [id, path]
    fields,       \* the field tables: rows [cls, id, entry_id, type_key, position, value]
    tag_fields,   \* table tag_fields (TagField): rows [field_id, tag_id]
    preferences,  \* table preferences: rows [key, value]
    value_types,  \* table value_types: rows [key, type, is_default]
    storage,      \* whether the library's storage file exists on disk
    lib,          \* Library.storage_path / engine: "Closed" or "Open"
    pc,           \* the caller: "idle", or "returned" holding a result in res
    res,          \* what the last operation returned to the caller
    stack,        \* the activation records of get_all_child_tag_ids
    calls,        \* the tag ids get_all_child_tag_ids was entered with, in order
    engine,       \* Library.engine: "unset", "live" or "disposed"
    dirs,         \* the directories under the library directory that exist
    backups,      \* the files in <library dir>/.TagStudio/backups: [name, content]
    clock,        \* the time, in seconds
    threads,      \* the calls that threads of the program are in: per thread
                  \* [pc, op, entry_ids, field_id, ret, seen, left, pending]
    added,        \* the items the caller gave to add_entries, by the id returned
                  \* for them: [id, path, fields]
    thumb_job_queue,  \* QtDriver.thumb_job_queue: jobs and MARKER_QUIT, in order
    thumb_threads,    \* QtDriver.thumb_threads: per Consumer [pc, markers, late]
    driver        \* the main thread of QtDriver: [pc, put, by, jobs_left]

vars == <<tags, tag_seq, tag_aliases, tag_subtags, entries, folders, fields,
          tag_fields, preferences, value_types, storage, lib, pc, res, stack, calls,
          engine, dirs, backups, clock, threads, added, thumb_job_queue,
          thumb_threads, driver>>

db == <<tags, tag_seq, tag_aliases, tag_subtags, entries, folders, fields,
        tag_fields, preferences, value_types>>

traversal == <<stack, calls>>

\* the state of the Library object and its process besides storage_path
files == <<dirs, backups, clock>>

concurrent == <<threads>>

\* what the caller keeps of its earlier calls
history == <<added>>

\* the thumbnail threads of the Qt driver and their queue
qt == <<thumb_job_queue, thumb_threads, driver>>

runtime == <<engine, files, concurrent, history, qt>>

-----------------------------------------------------------------------------
(* Bounds of the model *)

\* the largest id of a folder after which no folder is added
MaxFolderId == 2
\* the number of Consumer threads (os.cpu_count())
MaxConsumers == 2
\* the number of thumbnail jobs that wait in the queue at one time
MaxJobs == 2
\* the number of threads that call the library at the same time
MaxThreads == 2
\* the last second of the clock
MaxClock == 2
\* the largest page_size a caller asks for
MaxPageSize == 2
\* the largest page_index a caller asks for
MaxPageIndex == 1
\* the most rows table tag_fields holds
MaxTagFields == 2
\* the most nested calls the interpreter allows (its recursion limit)
MaxDepth == 4
\* the most tags add_tag creates in one library
MaxUserTags == 3
\* the highest id of a field row after which no further field is added
MaxFieldId == 3
\* the highest id of an entry after which no further entry is added
MaxEntryId == 3
\* the highest id of an alias after which no further tag is edited
MaxAliasId == 4

-----------------------------------------------------------------------------
(* Strings *)

UpperChars == <<"A", "B", "C", "D", "E", "F", "G", "H", "I", "J", "K", "L", "M",
                "N", "O", "P", "Q", "R", "S", "T", "U", "V", "W", "X", "Y", "Z">>
LowerChars == <<"a", "b", "c", "d", "e", "f", "g", "h", "i", "j", "k", "l", "m",
                "n", "o", "p", "q", "r", "s", "t", "u", "v", "w", "x", "y", "z">>

\* lower() of one character
lower(c) ==
    IF \E i \in DOMAIN UpperChars : UpperChars[i] = c
    THEN LowerChars[CHOOSE i \in DOMAIN UpperChars : UpperChars[i] = c]
    ELSE c

\* column.ilike(pattern): lower(column) LIKE lower(pattern), with the LIKE
\* wildcards % (any run of characters) and _ (any one character)
RECURSIVE ilike(_, _)
ilike(s, p) ==
    IF p = <<>> THEN s = <<>>
    ELSE IF Head(p) = "%"
         THEN ilike(s, Tail(p)) \/ (s # <<>> /\ ilike(Tail(s), p))
         ELSE /\ s # <<>>
              /\ (Head(p) = "_" \/ lower(Head(s)) = lower(Head(p)))
              /\ ilike(Tail(s), Tail(p))

\* Entry.suffix: the suffix of the path's last component, with its dot
Suffix(path) ==
    LET slashes == {i \in DOMAIN path : path[i] = "/"}
        start == IF slashes = {} THEN 1
                 ELSE 1 + CHOOSE i \in slashes : \A j \in slashes : j <= i
        dots == {i \in start + 1 .. Len(path) : path[i] = "."}
    IN  IF dots = {} THEN <<>>
        ELSE SubSeq(path, CHOOSE i \in dots : \A j \in dots : j <= i, Len(path))

-----------------------------------------------------------------------------
(* Program constants *)

TAG_ARCHIVED == 0
TAG_FAVORITE == 1
\* init_db: "tag IDs < 1000 are reserved"; the throwaway row has id 999
RESERVED_TAG_ID == 999

BACKUP_FOLDER_NAME == "backups"
DATADIR == ".TagStudio"

Archived == <<"A", "r", "c", "h", "i", "v", "e", "d">>
Archive == <<"A", "r", "c", "h", "i", "v", "e">>
Favorite == <<"F", "a", "v", "o", "r", "i", "t", "e">>
Favorited == <<"F", "a", "v", "o", "r", "i", "t", "e", "d">>
Favorites == <<"F", "a", "v", "o", "r", "i", "t", "e", "s">>

\* get_default_tags(): the two built-in tags, and their aliases
get_default_tags ==
    {[id |-> TAG_ARCHIVED, name |-> Archived, shorthand |-> {}],
     [id |-> TAG_FAVORITE, name |-> Favorite, shorthand |-> {}]}

default_tag_aliases ==
    {[id |-> 1, name |-> Archive, tag_id |-> TAG_ARCHIVED],
     [id |-> 2, name |-> Favorited, tag_id |-> TAG_FAVORITE],
     [id |-> 3, name |-> Favorites, tag_id |-> TAG_FAVORITE]}

\* LibraryPrefs: the preference keys with their defaults
LibraryPrefs ==
    {[key |-> "EXTENSION_LIST", value |-> {}],
     [key |-> "IS_EXCLUDE_LIST", value |-> TRUE]}

\* _FieldID: the built-in catalog of value types
FieldID ==
    {[key |-> "TITLE", type |-> "TEXT_LINE"], [key |-> "TAGS", type |-> "TAGS"]}

-----------------------------------------------------------------------------
(* Helpers on tables *)

Max(S) == CHOOSE x \in S : \A y \in S : y <= x
Min(S) == CHOOSE x \in S : \A y \in S : x <= y

\* the rowid SQLite gives a row inserted without id: the highest rowid plus one
next_rowid(rows) == IF rows = {} THEN 1 ELSE Max({r.id : r \in rows}) + 1

NoRes == [op |-> "none"]

\* Consumer.MARKER_QUIT
MARKER_QUIT == "MARKER_QUIT"

\* the Consumer threads that QtDriver.__init__ starts
Consumers == 1 .. MaxConsumers

\* a Consumer after thread.start(): about to call queue.get()
Started == [pc |-> "get", markers |-> 0, late |-> FALSE]

\* the main thread in app.exec(), before any call of shutdown
Running == [pc |-> "running", put |-> 0, by |-> "", jobs_left |-> 0]

\* the threads of the program that call the library
Threads == 1 .. MaxThreads

\* a thread that is in no call of the library
NoCall ==
    [pc |-> "idle", op |-> "none", entry_ids |-> <<>>, field_id |-> "",
     ret |-> "", seen |-> {}, left |-> {}, pending |-> {}]

-----------------------------------------------------------------------------
(* search_library *)

\* a filter request (FilterState); an unset string is the empty string
FilterState(page_index, page_size, id, tag_id, tag, name, path) ==
    [page_index |-> page_index, page_size |-> page_size, id |-> id,
     tag_id |-> tag_id, tag |-> tag, name |-> name, path |-> path,
     include_folders |-> {}, exclude_folders |-> {}]

\* FilterState.limit
limit(search) == search.page_size

\* FilterState.offset
offset(search) == search.page_size * search.page_index

\* Python's truth value of an optional integer ("if search.id", "if not tag.id")
truthy(opt) == \E x \in opt : x # 0

\* the right side of an outer join: every matching row, or one NULL row
outerjoin(matching) == IF matching = {} THEN {{}} ELSE {{m} : m \in matching}

\* Tag.subtags: the tags joined to t through a row (parent_id = t.id, child_id)
subtags(t) ==
    {s \in tags : [parent_id |-> t.id, child_id |-> s.id] \in tag_subtags}

\* Tag.aliases
aliases(t) == {a \in tag_aliases : a.tag_id = t.id}

\* Entry.tag_box_fields joined to TagBoxField.tags: rows (entry, field, tag)
entry_field_tags ==
    {j \in entries \X {f \in fields : f.cls = "TagBoxField"} \X tags :
        /\ j[2].entry_id = j[1].id
        /\ [field_id |-> j[2].id, tag_id |-> j[3].id] \in tag_fields}

\* one row of the statement's result set before it is made unique
Row(e, f, t, a, s) ==
    [entry |-> e.id, field |-> f, tag |-> t, alias |-> a, sub |-> s]

\* if search.tag: the four-way join, filtered on name, shorthand, alias name and
\* the name of a tag in Tag.subtags
where_tag(search) ==
    LET joined == UNION {{<<j[1], j[2], j[3], a, s>> :
                            a \in outerjoin(aliases(j[3])),
                            s \in outerjoin(subtags(j[3]))} :
                         j \in entry_field_tags}
    IN  {Row(j[1], {j[2].id}, {j[3].id},
             {a.id : a \in j[4]}, {s.id : s \in j[5]}) :
           j \in {k \in joined :
                    \/ ilike(k[3].name, search.tag)
                    \/ \E sh \in k[3].shorthand : ilike(sh, search.tag)
                    \/ \E a \in k[4] : ilike(a.name, search.tag)
                    \/ \E s \in k[5] : ilike(s.name, search.tag)}}

\* elif search.tag_id is not None
where_tag_id(search) ==
    {Row(j[1], {j[2].id}, {j[3].id}, {}, {}) :
       j \in {k \in entry_field_tags : k[3].id \in search.tag_id}}

\* the statements that select from table entries alone
where_entry(search, kind) ==
    {Row(e, {}, {}, {}, {}) :
       e \in {x \in entries :
                CASE kind = "id" -> x.id \in search.id
                  [] kind = "name" ->
                       /\ ilike(x.path, <<"%">> \o search.name \o <<"%">>)
                       /\ ~ilike(x.path, <<"%">> \o search.name \o <<"%", "/", "%">>)
                  [] kind = "path" ->
                       ilike(x.path, <<"%">> \o search.path \o <<"%">>)
                  [] OTHER -> TRUE}}

\* which branch of the if / elif chain builds the statement
primary_by_truth(search) ==
    IF search.tag # <<>> THEN "tag"
    ELSE IF truthy(search.tag_id) THEN "tag_id"
    ELSE IF truthy(search.id) THEN "id"
    ELSE IF search.name # <<>> THEN "name"
    ELSE IF search.path # <<>> THEN "path"
    ELSE "all"

primary(search) ==
    IF search.tag # <<>> THEN "tag"
    ELSE IF search.tag_id # {} THEN "tag_id"
    ELSE IF truthy(search.id) THEN "id"
    ELSE IF search.name # <<>> THEN "name"
    ELSE IF search.path # <<>> THEN "path"
    ELSE "all"

\* the statement a branch builds
statement_of(search, kind) ==
    CASE kind = "tag" -> where_tag(search)
      [] kind = "tag_id" -> where_tag_id(search)
      [] OTHER -> where_entry(search, kind)

statement(search) == statement_of(search, primary(search))

entry_of(id) == CHOOSE e \in entries : e.id = id

\* prefs(key): the value of the row of table preferences with that key
prefs(key) == (CHOOSE r \in preferences : r.key = key).value

\* the extension list of the preferences, as exclude list or as allow list
extension_where(e) ==
    IF prefs("EXTENSION_LIST") # {} /\ prefs("IS_EXCLUDE_LIST")
    THEN e.suffix \notin prefs("EXTENSION_LIST")
    ELSE IF prefs("EXTENSION_LIST") # {}
         THEN e.suffix \in prefs("EXTENSION_LIST")
         ELSE TRUE

\* exclude_folders, else include_folders
folder_where(search, e) ==
    IF search.exclude_folders # {} THEN e.folder_id \notin search.exclude_folders
    ELSE IF search.include_folders # {} THEN e.folder_id \in search.include_folders
    ELSE TRUE

\* the rows of the whole statement: the secondary filters apply unless id is set
filtered_by_extension(search) ==
    {r \in statement(search) :
       /\ extension_where(entry_of(r.entry))
       /\ folder_where(search, entry_of(r.entry))}

\* the statement with the filters of extensions and folders, which a search
\* by id leaves out
filtered(search) ==
    IF truthy(search.id) THEN statement(search)
    ELSE {r \in statement(search) :
            /\ extension_where(entry_of(r.entry))
            /\ folder_where(search, entry_of(r.entry))}

\* query_count: select count() from the statement
count_all(search) == Cardinality(filtered(search))

\* rows of table entries in the order of a table scan: by ascending id
RECURSIVE table_scan(_)
table_scan(rows) ==
    IF rows = {} THEN <<>>
    ELSE LET first == CHOOSE r \in rows : \A o \in rows : r.entry <= o.entry
         IN  <<first>> \o table_scan(rows \ {first})

\* statement.limit(search.limit).offset(search.offset).  The statement has no
\* ORDER BY.  A statement over table entries alone is a scan of the table, which
\* SQLite makes in rowid order; the rows of a join come in the order of the
\* query plan, which the program does not fix: a page of a join is any run of
\* rows that some order of the result set puts at the offset.
pages(search) ==
    LET rows == filtered(search)
        k == IF Cardinality(rows) - offset(search) < limit(search)
             THEN Cardinality(rows) - offset(search)
             ELSE limit(search)
    IN  IF k <= 0 THEN {<<>>}
        ELSE IF primary(search) \in {"tag", "tag_id"}
             THEN {p \in [1 .. k -> rows] :
                     \A i, j \in 1 .. k : i # j => p[i] # p[j]}
             ELSE {SubSeq(table_scan(rows), offset(search) + 1, offset(search) + k)}

\* Result.unique(): the first occurrence of every entry, in row order
RECURSIVE unique(_)
unique(s) ==
    IF s = <<>> THEN <<>>
    ELSE LET front == SubSeq(s, 1, Len(s) - 1)
         IN  IF \E i \in DOMAIN front : front[i] = s[Len(s)]
             THEN unique(front)
             ELSE Append(unique(front), s[Len(s)])

\* SearchResult(total_count, items)
SearchResult(search, page) ==
    [op |-> "search_library", search |-> search,
     total_count |-> count_all(search),
     items |-> unique([i \in DOMAIN page |-> page[i].entry])]

search_library(requests) ==
    /\ pc = "idle"
    /\ lib = "Open"
    /\ \E search \in requests : \E page \in pages(search) :
          res' = SearchResult(search, page)
    /\ pc' = "returned"
    /\ UNCHANGED <<db, storage, lib, traversal, runtime>>

\* the caller takes the result and is ready for its next call
Return ==
    /\ pc = "returned"
    /\ pc' = "idle"
    /\ res' = NoRes
    /\ calls' = <<>>
    /\ UNCHANGED <<db, storage, lib, stack, runtime>>

-----------------------------------------------------------------------------
(* The tag graph: add_subtag, remove_subtag *)

\* the foreign keys of a tag_subtags row ("pragma foreign_keys=ON")
subtag_fk_ok(row) ==
    /\ \E t \in tags : t.id = row.parent_id
    /\ \E t \in tags : t.id = row.child_id

add_subtag_with_self(base_id, new_tag_id) ==
    LET subtag == [parent_id |-> base_id, child_id |-> new_tag_id]
    IN  IF subtag \in tag_subtags \/ ~subtag_fk_ok(subtag)
        THEN [ret |-> "False", tag_subtags |-> tag_subtags]
        ELSE [ret |-> "True", tag_subtags |-> tag_subtags \cup {subtag}]

\* add_subtag(base_id, new_tag_id): what it returns and the table it leaves
add_subtag(base_id, new_tag_id) ==
    LET subtag == [parent_id |-> base_id, child_id |-> new_tag_id]
    IN  IF base_id = new_tag_id
        THEN [ret |-> "False", tag_subtags |-> tag_subtags]
        ELSE IF subtag \in tag_subtags \/ ~subtag_fk_ok(subtag)
             THEN [ret |-> "False", tag_subtags |-> tag_subtags]  \* IntegrityError
             ELSE [ret |-> "True", tag_subtags |-> tag_subtags \cup {subtag}]

AddSubtag(ids) ==
    /\ pc = "idle"
    /\ lib = "Open"
    /\ \E base_id \in ids, new_tag_id \in ids :
          LET done == add_subtag(base_id, new_tag_id)
          IN  /\ tag_subtags' = done.tag_subtags
              /\ res' = [op |-> "add_subtag", base_id |-> base_id,
                         new_tag_id |-> new_tag_id, ret |-> done.ret,
                         before |-> tag_subtags]
    /\ pc' = "returned"
    /\ UNCHANGED <<tags, tag_seq, tag_aliases, entries, fields, tag_fields,
                   preferences, value_types, storage, lib, traversal, runtime,
                   folders>>

\* remove_subtag(base_id, remove_tag_id): Query.one() raises when no row matches
remove_subtag(base_id, remove_tag_id) ==
    LET remove == [parent_id |-> base_id, child_id |-> remove_tag_id]
    IN  IF remove \notin tag_subtags
        THEN [ret |-> "NoResultFound", tag_subtags |-> tag_subtags]
        ELSE [ret |-> "True", tag_subtags |-> tag_subtags \ {remove}]

RemoveSubtag(ids) ==
    /\ pc = "idle"
    /\ lib = "Open"
    /\ \E base_id \in ids, remove_tag_id \in ids :
          LET done == remove_subtag(base_id, remove_tag_id)
          IN  /\ tag_subtags' = done.tag_subtags
              /\ res' = [op |-> "remove_subtag", base_id |-> base_id,
                         remove_tag_id |-> remove_tag_id, ret |-> done.ret]
    /\ pc' = "returned"
    /\ UNCHANGED <<tags, tag_seq, tag_aliases, entries, fields, tag_fields,
                   preferences, value_types, storage, lib, traversal, runtime,
                   folders>>

-----------------------------------------------------------------------------
(* Tags in tag-box fields: add_field_tag, remove_field_tag *)

\* select(TagBoxField).where(entry_id, type_key).first(), as an optional row
tag_box_field(entry_id, field_key) ==
    LET found == {f \in fields : /\ f.cls = "TagBoxField"
                                 /\ f.entry_id = entry_id
                                 /\ f.type_key = field_key}
    IN  IF found = {} THEN {}
        ELSE {CHOOSE f \in found : \A g \in found : f.id <= g.id}

\* a Tag object handed to the library: its id (None for a new tag), its name,
\* and whether it is a new (transient) object or one loaded from the library
TagObject(id, name, transient) ==
    [id |-> id, name |-> name, transient |-> transient]

\* add_field_tag where a tag box that was created stays when the tag fails
add_field_tag_keeps_field(entry_id, tag, field_key, missing_field) ==
    LET unchanged(ret) == [ret |-> ret, fields |-> fields, tag_fields |-> tag_fields,
                           tags |-> tags, tag_seq |-> tag_seq]
        found == tag_box_field(entry_id, field_key)
        created == [cls |-> "TagBoxField",
                    id |-> next_rowid({f \in fields : f.cls = "TagBoxField"}),
                    entry_id |-> entry_id, type_key |-> field_key,
                    position |-> 0, value |-> <<>>]
        field == IF found = {} THEN created ELSE CHOOSE f \in found : TRUE
        \* "if not tag.id": the tag object is added to the session and flushed
        inserted == ~truthy(tag.id) /\ tag.transient
        new_id == IF tag.id = {} THEN tag_seq + 1 ELSE CHOOSE i \in tag.id : TRUE
        tag_id == IF inserted THEN new_id ELSE CHOOSE i \in tag.id : TRUE
        tag_field == [field_id |-> field.id, tag_id |-> tag_id]
        kept(ret) == [unchanged(ret) EXCEPT !.fields = fields \cup {field}]
    IN  IF found = {} /\ missing_field = "SKIP" THEN unchanged("False")
        ELSE IF found = {} /\ missing_field = "RAISE" THEN unchanged("ValueError")
        ELSE IF found = {} /\ ~\E e \in entries : e.id = entry_id
             THEN unchanged("False")  \* IntegrityError: entry_id
        ELSE IF ~inserted /\ tag.id = {}
             THEN kept("False")  \* IntegrityError: tag_fields.tag_id is NULL
        ELSE IF inserted /\ \E t \in tags : t.id = new_id \/ t.name = tag.name
             THEN kept("False")  \* IntegrityError: tags.id, tags.name
        ELSE IF \/ tag_field \in tag_fields
                \/ ~inserted /\ ~\E t \in tags : t.id = tag_id
             THEN kept("False")  \* IntegrityError: tag_fields
        ELSE [ret |-> "True",
              fields |-> fields \cup {field},
              tag_fields |-> tag_fields \cup {tag_field},
              tags |-> IF inserted
                       THEN tags \cup {[id |-> new_id, name |-> tag.name,
                                        shorthand |-> {}]}
                       ELSE tags,
              tag_seq |-> IF inserted /\ new_id > tag_seq THEN new_id ELSE tag_seq]

\* add_field_tag(entry, tag, field_key, missing_field): what it returns and the
\* tables it leaves
add_field_tag(entry_id, tag, field_key, missing_field) ==
    LET unchanged(ret) == [ret |-> ret, fields |-> fields, tag_fields |-> tag_fields,
                           tags |-> tags, tag_seq |-> tag_seq]
        found == tag_box_field(entry_id, field_key)
        created == [cls |-> "TagBoxField",
                    id |-> next_rowid({f \in fields : f.cls = "TagBoxField"}),
                    entry_id |-> entry_id, type_key |-> field_key,
                    position |-> 0, value |-> <<>>]
        field == IF found = {} THEN created ELSE CHOOSE f \in found : TRUE
        \* "if not tag.id": the tag object is added to the session and flushed
        inserted == ~truthy(tag.id) /\ tag.transient
        new_id == IF tag.id = {} THEN tag_seq + 1 ELSE CHOOSE i \in tag.id : TRUE
        tag_id == IF inserted THEN new_id ELSE CHOOSE i \in tag.id : TRUE
        tag_field == [field_id |-> field.id, tag_id |-> tag_id]
    IN  IF found = {} /\ missing_field = "SKIP" THEN unchanged("False")
        ELSE IF found = {} /\ missing_field = "RAISE" THEN unchanged("ValueError")
        ELSE IF found = {} /\ ~\E e \in entries : e.id = entry_id
             THEN unchanged("False")  \* IntegrityError: entry_id
        ELSE IF ~inserted /\ tag.id = {}
             THEN unchanged("False")  \* IntegrityError: tag_fields.tag_id is NULL
        ELSE IF inserted /\ \E t \in tags : t.id = new_id \/ t.name = tag.name
             THEN unchanged("False")  \* IntegrityError: tags.id, tags.name
        ELSE IF \/ tag_field \in tag_fields
                \/ ~inserted /\ ~\E t \in tags : t.id = tag_id
             THEN unchanged("False")  \* IntegrityError: tag_fields
        ELSE [ret |-> "True",
              fields |-> fields \cup {field},
              tag_fields |-> tag_fields \cup {tag_field},
              tags |-> IF inserted
                       THEN tags \cup {[id |-> new_id, name |-> tag.name,
                                        shorthand |-> {}]}
                       ELSE tags,
              tag_seq |-> IF inserted /\ new_id > tag_seq THEN new_id ELSE tag_seq]

MissingFieldAction == {"SKIP", "CREATE", "RAISE"}

AddFieldTag(entry_ids, tag_objects, field_keys) ==
    /\ pc = "idle"
    /\ lib = "Open"
    /\ Cardinality(tag_fields) < MaxTagFields
    /\ \E entry_id \in entry_ids, tag \in tag_objects, field_key \in field_keys,
          missing_field \in MissingFieldAction :
          LET done == add_field_tag(entry_id, tag, field_key, missing_field)
          IN  /\ fields' = done.fields
              /\ tag_fields' = done.tag_fields
              /\ tags' = done.tags
              /\ tag_seq' = done.tag_seq
              /\ res' = [op |-> "add_field_tag", entry_id |-> entry_id, tag |-> tag,
                         field_key |-> field_key, missing_field |-> missing_field,
                         ret |-> done.ret,
                         before |-> [fields |-> fields, tag_fields |-> tag_fields,
                                     tags |-> tags]]
    /\ pc' = "returned"
    /\ UNCHANGED <<tag_aliases, tag_subtags, entries, preferences, value_types,
                   storage, lib, traversal, runtime,
                   folders>>

\* remove_field_tag(entry, tag_id, field_key)
remove_field_tag(entry_id, tag_id, field_key) ==
    LET found == tag_box_field(entry_id, field_key)
    IN  IF found = {} THEN [ret |-> "False", tag_fields |-> tag_fields]
        ELSE [ret |-> "True",
              tag_fields |-> tag_fields \
                  {[field_id |-> f.id, tag_id |-> tag_id] : f \in found}]

RemoveFieldTag(entry_ids, tag_ids, field_keys) ==
    /\ pc = "idle"
    /\ lib = "Open"
    /\ \E entry_id \in entry_ids, tag_id \in tag_ids, field_key \in field_keys :
          LET done == remove_field_tag(entry_id, tag_id, field_key)
          IN  /\ tag_fields' = done.tag_fields
              /\ res' = [op |-> "remove_field_tag", entry_id |-> entry_id,
                         tag_id |-> tag_id, field_key |-> field_key,
                         ret |-> done.ret]
    /\ pc' = "returned"
    /\ UNCHANGED <<tags, tag_seq, tag_aliases, tag_subtags, entries, fields,
                   preferences, value_types, storage, lib, traversal, runtime,
                   folders>>

-----------------------------------------------------------------------------
(* Preferences: prefs, set_prefs *)

\* set_prefs(key, value): the row of the key is loaded and its value replaced
set_prefs(key, value) ==
    {IF r.key = key THEN [r EXCEPT !.value = value] ELSE r : r \in preferences}

SetPrefs(extension_lists) ==
    /\ pc = "idle"
    /\ lib = "Open"
    /\ \E key \in {r.key : r \in preferences} :
          \E value \in IF key = "EXTENSION_LIST" THEN extension_lists ELSE BOOLEAN :
             /\ preferences' = set_prefs(key, value)
             /\ res' = [op |-> "set_prefs", key |-> key]
    /\ pc' = "returned"
    /\ UNCHANGED <<tags, tag_seq, tag_aliases, tag_subtags, entries, fields,
                   tag_fields, value_types, storage, lib, traversal, runtime,
                   folders>>

-----------------------------------------------------------------------------
(* A populated library: two user tags, two entries *)

animal == <<"a", "n", "i", "m", "a", "l">>
dog == <<"d", "o", "g">>
favorite == <<"f", "a", "v", "o", "r", "i", "t", "e">>

\* the first two ids of tags added by add_tag without id
AnimalId == RESERVED_TAG_ID + 1
DogId == RESERVED_TAG_ID + 2

LibraryTags ==
    get_default_tags \cup {[id |-> AnimalId, name |-> animal, shorthand |-> {}],
                           [id |-> DogId, name |-> dog, shorthand |-> {}]}

Entry(id, path, folder_id) ==
    [id |-> id, path |-> path, folder_id |-> folder_id, suffix |-> Suffix(path)]

\* lib.add_folder(folder_path)
LibraryFolders == {[id |-> 1, path |-> "/dev/null/"]}

LibraryEntries ==
    {Entry(1, <<"a", ".", "t">>, 1), Entry(2, <<"t", "/", "b", ".", "m">>, 1)}

TagBoxField(id, entry_id, type_key) ==
    [cls |-> "TagBoxField", id |-> id, entry_id |-> entry_id,
     type_key |-> type_key, position |-> 0, value |-> <<>>]

\* the objects of the library's tags, as a caller holds them after loading them
LoadedTags == {TagObject({t.id}, t.name, FALSE) : t \in LibraryTags}

\* the library after open_library, add_tag (animal, dog), add_entries (two
\* entries, the first with a tag box "TAGS") and set_prefs (no extension list)
InitLibrary ==
    /\ tags = LibraryTags
    /\ tag_seq = DogId
    /\ tag_aliases = default_tag_aliases
    /\ tag_subtags = {}
    /\ entries = LibraryEntries
    /\ folders = LibraryFolders
    /\ fields = {TagBoxField(1, 1, "TAGS")}
    /\ tag_fields = {}
    /\ preferences = {[key |-> "EXTENSION_LIST", value |-> {}],
                      [key |-> "IS_EXCLUDE_LIST", value |-> TRUE]}
    /\ value_types = FieldID
    /\ storage = TRUE
    /\ lib = "Open"
    /\ pc = "idle"
    /\ res = NoRes
    /\ stack = <<>>
    /\ calls = <<>>
    /\ engine = "live"
    /\ dirs = {}
    /\ backups = {}
    /\ clock = 0
    /\ threads = [t \in Threads |-> NoCall]
    /\ added = {}
    /\ thumb_job_queue = <<>>
    /\ thumb_threads = [t \in Consumers |-> Started]
    /\ driver = Running

-----------------------------------------------------------------------------
(* SpecSearch: tag searches and their pages *)

\* requests with one primary predicate: a tag name, a tag id, or none
TagRequests ==
    {FilterState(i, p, {}, q[1], q[2], <<>>, <<>>) :
       i \in 0 .. MaxPageIndex, p \in 1 .. MaxPageSize,
       q \in {<<{}, <<>>>>, <<{TAG_FAVORITE}, <<>>>>, <<{DogId}, <<>>>>,
              <<{}, animal>>, <<{}, favorite>>}}

NextSearch ==
    \/ AddSubtag({AnimalId, DogId})
    \/ RemoveSubtag({AnimalId, DogId})
    \/ AddFieldTag({1, 2}, {t \in LoadedTags : t.id # {TAG_ARCHIVED}}, {"TAGS"})
    \/ RemoveFieldTag({1, 2}, {TAG_FAVORITE, DogId}, {"TAGS"})
    \/ search_library(TagRequests)
    \/ Return

SpecSearch == InitLibrary /\ [][NextSearch]_vars

-----------------------------------------------------------------------------
(* Claims about tag searches (SpecSearch) *)

Range(s) == {s[i] : i \in DOMAIN s}

\* the ids of a set, ascending
RECURSIVE Ascending(_)
Ascending(S) == IF S = {} THEN <<>> ELSE <<Min(S)>> \o Ascending(S \ {Min(S)})

\* the tags in the tag boxes of an entry
entry_tag_ids(e) ==
    {tf.tag_id : tf \in {x \in tag_fields :
                           \E f \in fields : /\ f.cls = "TagBoxField"
                                             /\ f.id = x.field_id
                                             /\ f.entry_id = e.id}}

\* the distinct entries in the result set of a request
matching(search) == {r.entry : r \in filtered(search)}

\* the result holds every row of the statement: it is the first page and the
\* page is not full
WholeResult == /\ res.op = "search_library"
               /\ res.search.page_index = 0
               /\ res.total_count <= res.search.page_size

\* C2: a search for tag = s returns every entry whose only tag is a child tag
\* C of a tag P (row parent_id = P, child_id = C of tag_subtags) whose name s
\* matches
C2_SubtagSearchTransitivity ==
    (WholeResult /\ res.search.tag # <<>>) =>
        \A e \in entries, c \in tags, p \in tags :
            (/\ entry_tag_ids(e) = {c.id}
             /\ [parent_id |-> p.id, child_id |-> c.id] \in tag_subtags
             /\ ilike(p.name, res.search.tag))
            => e.id \in Range(res.items)

\* C3: total_count is the number of distinct entries that match the filter
C3_TotalCountIsDistinctEntries ==
    res.op = "search_library" =>
        res.total_count = Cardinality(matching(res.search))

\* C4: the page holds elements offset .. offset + limit - 1 of the distinct
\* matching entries in ascending id order
C4_PageIsSliceOfAscendingEntries ==
    res.op = "search_library" =>
        LET all == Ascending(matching(res.search))
            last == IF offset(res.search) + limit(res.search) < Len(all)
                    THEN offset(res.search) + limit(res.search)
                    ELSE Len(all)
        IN  res.items = SubSeq(all, offset(res.search) + 1, last)

-----------------------------------------------------------------------------
(* SpecFilter: requests that set several fields, and the extension list *)

\* requests that set any of id, tag_id, tag, name, path, with the largest page
FilterRequests ==
    {FilterState(0, MaxPageSize, id, tag_id, tag, name, path) :
       id \in {{}, {2}}, tag_id \in {{}, {DogId}}, tag \in {<<>>, dog},
       name \in {<<>>, <<"a">>}, path \in {<<>>, <<"t">>}}

NextFilter ==
    \/ AddFieldTag({1, 2}, {t \in LoadedTags : t.id = {DogId}}, {"TAGS"})
    \/ RemoveFieldTag({1, 2}, {DogId}, {"TAGS"})
    \/ SetPrefs({{}, {<<".", "t">>}})
    \/ search_library(FilterRequests)
    \/ Return

SpecFilter == InitLibrary /\ [][NextFilter]_vars

\* the precedence of the request fields as the specification lists it
listed_primary(search) ==
    IF truthy(search.id) THEN "id"
    ELSE IF search.tag_id # {} THEN "tag_id"
    ELSE IF search.tag # <<>> THEN "tag"
    ELSE IF search.name # <<>> THEN "name"
    ELSE IF search.path # <<>> THEN "path"
    ELSE "all"

\* C5: of the fields a request sets, the first of id, tag_id, tag, name, path
\* is the one predicate applied: the result is what that predicate selects
\* (with the secondary filters, unless it is the id lookup)
C5_PrecedenceIdTagIdTagNamePath ==
    WholeResult =>
        Range(res.items) =
            {r.entry : r \in {x \in statement_of(res.search, listed_primary(res.search)) :
                \/ listed_primary(res.search) = "id"
                \/ /\ extension_where(entry_of(x.entry))
                   /\ folder_where(res.search, entry_of(x.entry))}}

\* the entries the primary predicate of the request selects, whatever their suffix
selected(search) == {entry_of(r.entry) : r \in statement(search)}

\* C10: without id in the request the extension list filters the selected
\* entries (empty: none dropped; exclude list: exactly those with a listed suffix
\* dropped; allow list: exactly those kept); with id in the request the entry
\* of that id is returned whatever the extension preference is
C10_ExtensionFilterModes ==
    WholeResult =>
        IF res.search.id = {}
        THEN Range(res.items) =
               {e.id : e \in {x \in selected(res.search) :
                   \/ prefs("EXTENSION_LIST") = {}
                   \/ /\ prefs("IS_EXCLUDE_LIST")
                      /\ x.suffix \notin prefs("EXTENSION_LIST")
                   \/ /\ ~prefs("IS_EXCLUDE_LIST")
                      /\ x.suffix \in prefs("EXTENSION_LIST")}}
        ELSE Range(res.items) = {e.id : e \in {x \in entries : x.id \in res.search.id}}

\* C10 for the requests in which no other primary field accompanies id
C10_WithoutMixedRequests ==
    (res.op = "search_library" /\ res.search.id # {}
       /\ (res.search.tag # <<>> \/ res.search.tag_id # {}))
    \/ C10_ExtensionFilterModes

-----------------------------------------------------------------------------
(* get_all_child_tag_ids (get_all_descendant_ids) *)

\* Tag.subtag_ids of the tag with the given id
subtag_ids(tag_id) ==
    {s.id : s \in UNION {subtags(t) : t \in {x \in tags : x.id = tag_id}}}

\* the activation record of one call: all_subtags after
\* all_subtags.update(subtag_ids), and the sub_ids the for loop has yet to take
Frame_without_self(tag_id) ==
    [tag_id |-> tag_id, all_subtags |-> subtag_ids(tag_id),
     todo |-> subtag_ids(tag_id)]

Frame(tag_id) ==
    [tag_id |-> tag_id,
     all_subtags |-> {tag_id} \cup subtag_ids(tag_id),
     todo |-> subtag_ids(tag_id)]

\* a caller calls get_all_child_tag_ids(tag_id)
Call(ids) ==
    /\ pc = "idle"
    /\ lib = "Open"
    /\ \E tag_id \in ids :
          IF \E t \in tags : t.id = tag_id
          THEN /\ stack' = <<Frame(tag_id)>>
               /\ calls' = <<tag_id>>
               /\ pc' = "running"
               /\ res' = [op |-> "get_all_child_tag_ids", tag_id |-> tag_id,
                          ret |-> "running", ids |-> {}]
          ELSE /\ stack' = <<>>
               /\ calls' = <<tag_id>>
               /\ pc' = "returned"
               /\ res' = [op |-> "get_all_child_tag_ids", tag_id |-> tag_id,
                          ret |-> "ValueError", ids |-> {}]
    /\ UNCHANGED <<db, storage, lib, runtime>>

\* for sub_id in subtag_ids: self.get_all_child_tag_ids(sub_id); the call is
\* made for every sub_id, whether or not it was entered before
Recurse ==
    /\ pc = "running"
    /\ stack[Len(stack)].todo # {}
    /\ \E sub_id \in stack[Len(stack)].todo :
          IF Len(stack) >= MaxDepth
          THEN /\ stack' = <<>>
               /\ calls' = calls
               /\ pc' = "returned"
               /\ res' = [res EXCEPT !.ret = "RecursionError"]
          ELSE /\ stack' = Append([stack EXCEPT ![Len(stack)].todo = @ \ {sub_id}],
                                  Frame(sub_id))
               /\ calls' = Append(calls, sub_id)
               /\ UNCHANGED <<pc, res>>
    /\ UNCHANGED <<db, storage, lib, runtime>>

\* return list(all_subtags): the caller's loop adds it to its own all_subtags
Unwind ==
    /\ pc = "running"
    /\ stack[Len(stack)].todo = {}
    /\ IF Len(stack) = 1
       THEN /\ stack' = <<>>
            /\ pc' = "returned"
            /\ res' = [res EXCEPT !.ret = "list", !.ids = stack[1].all_subtags]
       ELSE /\ stack' = [SubSeq(stack, 1, Len(stack) - 1) EXCEPT
                           ![Len(stack) - 1].all_subtags =
                               @ \cup stack[Len(stack)].all_subtags]
            /\ UNCHANGED <<pc, res>>
    /\ UNCHANGED <<db, storage, lib, calls, runtime>>

GraphTags == {TAG_FAVORITE, AnimalId, DogId}

NextTraverse ==
    \/ AddSubtag(GraphTags)
    \/ RemoveSubtag(GraphTags)
    \/ Call(GraphTags)
    \/ Recurse
    \/ Unwind
    \/ Return

SpecTraverse == InitLibrary /\ [][NextTraverse]_vars

\* C1: on every tag graph, cyclic ones included, the traversal enters no tag
\* twice and so ends with its list, never in the interpreter's recursion limit
C1_TraversalTerminatesOnCycles ==
    /\ \A i, j \in DOMAIN calls : i # j => calls[i] # calls[j]
    /\ ~(res.op = "get_all_child_tag_ids" /\ res.ret = "RecursionError")

-----------------------------------------------------------------------------
(* Library lifecycle: open_library, init_db, close; add_tag, delete_item *)

\* make_tables on a storage without tables
make_tables ==
    [tags |-> {}, tag_seq |-> 0, tag_aliases |-> {}, tag_subtags |-> {},
     entries |-> {}, folders |-> {}, fields |-> {}, tag_fields |-> {},
     preferences |-> {}, value_types |-> {}]

\* the tables of the storage the engine is connected to
connected ==
    [tags |-> tags, tag_seq |-> tag_seq, tag_aliases |-> tag_aliases,
     tag_subtags |-> tag_subtags, entries |-> entries, fields |-> fields,
     tag_fields |-> tag_fields, preferences |-> preferences,
     value_types |-> value_types, folders |-> folders]

\* the id an insert without id gets in a table with an autoincrement sequence:
\* one more than the largest id the table ever held
autoincrement(seq, rows) == Max({seq} \cup {r.id : r \in rows}) + 1

\* the sequence after a row with that id was inserted
bump(seq, id) == Max({seq, id})

\* init_db: on a new storage a tag with id 999 is inserted and deleted
init_db_without_reserve(t, is_new) == t

init_db(t, is_new) ==
    IF is_new THEN [t EXCEPT !.tag_seq = bump(@, RESERVED_TAG_ID)] ELSE t

\* session.add_all(get_default_tags()), IntegrityError caught and rolled back
add_default_tags(t) ==
    IF \E d \in get_default_tags, x \in t.tags : x.id = d.id \/ x.name = d.name
    THEN t
    ELSE [t EXCEPT !.tags = @ \cup get_default_tags,
                   !.tag_aliases = @ \cup default_tag_aliases,
                   !.tag_seq = bump(@, Max({d.id : d \in get_default_tags}))]

\* session.add(Preferences(key, default)), IntegrityError (the key exists)
\* caught and rolled back
add_preference_upsert(rows, pref) ==
    {r \in rows : r.key # pref.key} \cup {pref}

add_preference(rows, pref) ==
    IF \E r \in rows : r.key = pref.key THEN rows ELSE rows \cup {pref}

RECURSIVE add_preferences(_, _)
\* for pref in LibraryPrefs
add_preferences(rows, todo) ==
    IF todo = {} THEN rows
    ELSE LET pref == CHOOSE x \in todo : TRUE
         IN  add_preferences(add_preference(rows, pref), todo \ {pref})

\* for field in _FieldID: session.add(ValueType(...)), IntegrityError caught
add_value_types(rows) ==
    rows \cup {v \in FieldID : ~\E r \in rows : r.key = v.key}

\* open_library on the tables of the storage at storage_path
open_library(t, is_new) ==
    LET initialized == init_db(t, is_new)
        with_tags == IF is_new THEN add_default_tags(initialized) ELSE initialized
        with_prefs == [with_tags EXCEPT
                         !.preferences = add_preferences(@, LibraryPrefs)]
    IN  IF is_new
        THEN [with_prefs EXCEPT !.value_types = add_value_types(@)]
        ELSE with_prefs

\* the tables become those of t
Load(t) ==
    /\ tags' = t.tags
    /\ tag_seq' = t.tag_seq
    /\ tag_aliases' = t.tag_aliases
    /\ tag_subtags' = t.tag_subtags
    /\ entries' = t.entries
    /\ folders' = t.folders
    /\ fields' = t.fields
    /\ tag_fields' = t.tag_fields
    /\ preferences' = t.preferences
    /\ value_types' = t.value_types

\* open_library(storage_path); an in-memory library is opened only while no
\* storage file exists
OpenLibrary(paths) ==
    /\ pc = "idle"
    /\ \E storage_path \in paths :
          LET in_memory == storage_path = ":memory:"
              is_new == in_memory \/ ~storage
          IN  /\ in_memory => ~storage
              /\ Load(open_library(IF is_new THEN make_tables ELSE connected,
                                   is_new))
              /\ storage' = (storage \/ ~in_memory)
              /\ res' = [op |-> "open_library", storage_path |-> storage_path,
                         existed |-> storage, success |-> TRUE,
                         before |-> [tags |-> tags, tag_aliases |-> tag_aliases,
                                     preferences |-> preferences,
                                     value_types |-> value_types]]
    /\ lib' = "Open"
    /\ engine' = "live"
    /\ pc' = "returned"
    /\ UNCHANGED <<traversal, files, concurrent, history, qt>>

\* close(); the tables of an in-memory library go with its engine
Close ==
    /\ pc = "idle"
    /\ IF engine = "unset"
       THEN \* "if self.engine" on an object without the attribute
            /\ res' = [op |-> "close", ret |-> "AttributeError", before |-> lib]
            /\ UNCHANGED <<db, lib, engine>>
       ELSE /\ engine' = "disposed"
            /\ lib' = "Closed"
            /\ Load(IF lib = "Open" /\ ~storage THEN make_tables ELSE connected)
            /\ res' = [op |-> "close", ret |-> "None", before |-> lib]
    /\ pc' = "returned"
    /\ UNCHANGED <<storage, traversal, files, concurrent, history, qt>>

update_subtags_with_self(rows, tag_id, subtags_arg) ==
    LET prev_subtags == {r \in rows : r.parent_id = tag_id}
        deleted == {r \in prev_subtags : r.child_id \notin subtags_arg}
        remaining == subtags_arg \ {r.child_id : r \in prev_subtags}
        inserted == {[parent_id |-> tag_id, child_id |-> c] : c \in remaining}
    IN  [rows |-> (rows \ deleted) \cup inserted,
         deleted |-> deleted, inserted |-> inserted]

\* update_subtags(tag, subtag_ids, session) on the rows of tag_subtags: the
\* rows deleted and inserted are kept for the caller's result
update_subtags(rows, tag_id, subtags_arg) ==
    LET wanted == subtags_arg \ {tag_id}
        prev_subtags == {r \in rows : r.parent_id = tag_id}
        deleted == {r \in prev_subtags : r.child_id \notin wanted}
        remaining == wanted \ {r.child_id : r \in prev_subtags}
        inserted == {[parent_id |-> tag_id, child_id |-> c] : c \in remaining}
    IN  [rows |-> (rows \ deleted) \cup inserted,
         deleted |-> deleted, inserted |-> inserted]

RECURSIVE keep_aliases(_, _, _)
\* for alias in prev_aliases: the alias is deleted, or it is kept and its id
\* and name are removed from alias_ids and alias_names
keep_aliases(prev_aliases, alias_ids, alias_names) ==
    IF prev_aliases = <<>>
    THEN [kept |-> {}, alias_names |-> alias_names]
    ELSE LET alias == Head(prev_aliases)
         IN  IF alias.id \notin alias_ids \/ alias.name \notin Range(alias_names)
             THEN keep_aliases(Tail(prev_aliases), alias_ids, alias_names)
             ELSE LET rest == keep_aliases(
                                  Tail(prev_aliases), alias_ids \ {alias.id},
                                  SelectSeq(alias_names,
                                            LAMBDA n : n # alias.name))
                  IN  [rest EXCEPT !.kept = @ \cup {alias}]

RECURSIVE new_aliases(_, _, _)
\* for alias_name in alias_names: session.add(TagAlias(alias_name, tag.id))
new_aliases(next_id, alias_names, tag_id) ==
    IF alias_names = <<>> THEN {}
    ELSE {[id |-> next_id, name |-> Head(alias_names), tag_id |-> tag_id]}
         \cup new_aliases(next_id + 1, Tail(alias_names), tag_id)

update_aliases_by_id(rows, tag_id, alias_ids, alias_names) ==
    LET prev == {x \in rows : x.tag_id = tag_id}
        kept == {a \in prev : a.id \in alias_ids}
        inserted == new_aliases(next_rowid(rows),
                                SelectSeq(alias_names,
                                          LAMBDA n : \A a \in kept : a.name # n),
                                tag_id)
    IN  [rows |-> (rows \ (prev \ kept)) \cup inserted,
         deleted |-> prev \ kept, inserted |-> inserted]

\* update_aliases(tag, alias_ids, alias_names, session) on the rows of
\* tag_aliases; alias_names is the set in the order the loop takes it
update_aliases(rows, tag_id, alias_ids, alias_names) ==
    LET prev_aliases == table_scan({[entry |-> a.id, alias |-> a] :
                                      a \in {x \in rows : x.tag_id = tag_id}})
        prev_rows == [i \in DOMAIN prev_aliases |-> prev_aliases[i].alias]
        done == keep_aliases(prev_rows, alias_ids, alias_names)
        deleted == Range(prev_rows) \ done.kept
        inserted == new_aliases(next_rowid(rows), done.alias_names, tag_id)
    IN  [rows |-> (rows \ deleted) \cup inserted,
         deleted |-> deleted, inserted |-> inserted]

\* add_tag(tag, subtag_ids, alias_names, alias_ids), with subtags_arg for
\* subtag_ids; an argument that is None
\* is the empty set, one that is given is the set of its value
add_tag(tag, subtags_arg, alias_names, alias_ids) ==
    LET failed == [ret |-> {}, tags |-> tags, tag_seq |-> tag_seq,
                   tag_subtags |-> tag_subtags, tag_aliases |-> tag_aliases,
                   subtags_done |-> {}, aliases_done |-> {}]
        new_id == IF tag.id = {} THEN autoincrement(tag_seq, tags)
                  ELSE CHOOSE i \in tag.id : TRUE
        \* session.add(tag), session.flush(): INSERT of a new object, UPDATE
        \* of a loaded one
        flush_fails_tag ==
            IF tag.transient
            THEN \E t \in tags : t.id = new_id \/ t.name = tag.name
            ELSE \E t \in tags : t.id # new_id /\ t.name = tag.name
        flushed == {t \in tags : t.id # new_id} \cup
                   {[id |-> new_id, name |-> tag.name, shorthand |-> {}]}
        subtags_done ==
            IF subtags_arg = {}
            THEN [rows |-> tag_subtags, deleted |-> {}, inserted |-> {}]
            ELSE update_subtags(tag_subtags, new_id,
                                CHOOSE ids \in subtags_arg : TRUE)
        aliases_done ==
            IF alias_ids = {} \/ alias_names = {}
            THEN [rows |-> tag_aliases, deleted |-> {}, inserted |-> {}]
            ELSE update_aliases(tag_aliases, new_id,
                                CHOOSE ids \in alias_ids : TRUE,
                                CHOOSE names \in alias_names : TRUE)
    IN  IF flush_fails_tag THEN failed
        ELSE IF \E r \in subtags_done.inserted :
                   ~\E t \in flushed : t.id = r.child_id
        THEN failed  \* IntegrityError at commit: tag_subtags.child_id
        ELSE [ret |-> {new_id}, tags |-> flushed,
              tag_seq |-> bump(tag_seq, new_id),
              tag_subtags |-> subtags_done.rows,
              tag_aliases |-> aliases_done.rows,
              subtags_done |-> {subtags_done}, aliases_done |-> {aliases_done}]

\* add_tag(tag) for a new Tag object
AddTag(tag_objects) ==
    /\ pc = "idle"
    /\ lib = "Open"
    /\ tag_seq < RESERVED_TAG_ID + MaxUserTags
    /\ \E tag \in tag_objects :
          LET done == add_tag(tag, {}, {}, {})
          IN  /\ tags' = done.tags
              /\ tag_seq' = done.tag_seq
              /\ res' = [op |-> "add_tag", tag |-> tag, ret |-> done.ret]
    /\ pc' = "returned"
    /\ UNCHANGED <<tag_aliases, tag_subtags, entries, fields, tag_fields,
                   preferences, value_types, storage, lib, traversal, runtime,
                   folders>>

\* delete_item(item) for a Tag loaded from the library: its rows in tag_subtags
\* go with it, a row of tag_aliases or tag_fields that refers to it makes the
\* commit fail
delete_item(tag_id) ==
    IF \/ \E a \in tag_aliases : a.tag_id = tag_id
       \/ \E r \in tag_fields : r.tag_id = tag_id
    THEN [ret |-> "IntegrityError", tags |-> tags, tag_subtags |-> tag_subtags]
    ELSE [ret |-> "None",
          tags |-> {t \in tags : t.id # tag_id},
          tag_subtags |-> {r \in tag_subtags :
                             r.parent_id # tag_id /\ r.child_id # tag_id}]

DeleteTag ==
    /\ pc = "idle"
    /\ lib = "Open"
    /\ \E t \in tags :
          LET done == delete_item(t.id)
          IN  /\ tags' = done.tags
              /\ tag_subtags' = done.tag_subtags
              /\ res' = [op |-> "delete_item", tag_id |-> t.id, ret |-> done.ret]
    /\ pc' = "returned"
    /\ UNCHANGED <<tag_seq, tag_aliases, entries, fields, tag_fields,
                   preferences, value_types, storage, lib, traversal, runtime,
                   folders>>

\* a Library object before its first open_library
InitClosed ==
    /\ tags = {}
    /\ tag_seq = 0
    /\ tag_aliases = {}
    /\ tag_subtags = {}
    /\ entries = {}
    /\ folders = {}
    /\ fields = {}
    /\ tag_fields = {}
    /\ preferences = {}
    /\ value_types = {}
    /\ storage = FALSE
    /\ lib = "Closed"
    /\ pc = "idle"
    /\ res = NoRes
    /\ stack = <<>>
    /\ calls = <<>>
    /\ engine = "unset"
    /\ dirs = {}
    /\ backups = {}
    /\ clock = 0
    /\ threads = [t \in Threads |-> NoCall]
    /\ added = {}
    /\ thumb_job_queue = <<>>
    /\ thumb_threads = [t \in Consumers |-> Started]
    /\ driver = Running

-----------------------------------------------------------------------------
(* SpecOpen: a library is created, used, closed and opened again *)

\* new Tag objects: without id, and with an id the caller chose
NewTags ==
    {TagObject({}, animal, TRUE), TagObject({}, dog, TRUE),
     TagObject({TAG_FAVORITE + 1}, favorite, TRUE)}

NextOpen ==
    \/ OpenLibrary({":memory:", "dir"})
    \/ Close
    \/ AddTag(NewTags)
    \/ DeleteTag
    \/ SetPrefs({{}, {<<".", "t">>}})
    \/ Return

SpecOpen == InitClosed /\ [][NextOpen]_vars

\* C8: open_library on a storage that exists leaves the tags, their aliases,
\* the preference rows (one per key, values kept) and the value types as they
\* were before it, and returns a success status
C8_OpenIsIdempotentOnExistingStorage ==
    (res.op = "open_library" /\ res.existed) =>
       /\ tags = res.before.tags
       /\ tag_aliases = res.before.tag_aliases
       /\ preferences = res.before.preferences
       /\ value_types = res.before.value_types
       /\ \A r1, r2 \in preferences : r1.key = r2.key => r1 = r2
       /\ \A t1, t2 \in tags : t1.id = t2.id \/ t1.name = t2.name => t1 = t2
       /\ res.success

\* an existing storage with a tag of the user and a changed preference was
\* opened again
C8_ReopenedAfterChanges ==
    /\ res.op = "open_library"
    /\ res.existed
    /\ \E t \in tags : t.id > RESERVED_TAG_ID
    /\ \E r \in preferences : r \notin LibraryPrefs

-----------------------------------------------------------------------------
(* Entry fields: add_entry_field_type, update_field_position,
   remove_entry_field, mirror_entry_fields *)

\* get_value_type(field_key) and the field class of its type
field_class(field_key) ==
    IF (CHOOSE v \in value_types : v.key = field_key).type = "TAGS"
    THEN "TagBoxField"
    ELSE "TextField"

\* the rows of one field class and type key on one entry
slot(rows, cls, field_type, entry_id) ==
    {f \in rows : f.cls = cls /\ f.type_key = field_type /\ f.entry_id = entry_id}

update_field_position_kept(rows, cls, field_type, entry_ids) ==
    rows

\* update_field_position: on every entry of entry_ids the rows of the class
\* and type key get the positions 0, 1, .. in the order of their ids
update_field_position(rows, cls, field_type, entry_ids) ==
    {IF f.cls = cls /\ f.type_key = field_type /\ f.entry_id \in entry_ids
     THEN [f EXCEPT !.position =
             Cardinality({g \in slot(rows, cls, field_type, f.entry_id) :
                            g.id < f.id})]
     ELSE f : f \in rows}

flush_fails_on_entry_only(rows, cls, field_type, entry_id) ==
    ~\E e \in entries : e.id = entry_id

\* the flush of field_model with that entry_id raises IntegrityError: the entry
\* does not exist, or it has a tag box of the type key already
flush_fails(rows, cls, field_type, entry_id) ==
    \/ ~\E e \in entries : e.id = entry_id
    \/ cls = "TagBoxField" /\ slot(rows, cls, field_type, entry_id) # {}

\* the first session of add_entry_field_type: the one object field_model is
\* flushed once for every entry id, the first flush inserts its row and every
\* later one moves that row; IntegrityError rolls back
add_field_model(rows, entry_ids, field_id, value) ==
    LET cls == field_class(field_id)
        field_model ==
            [cls |-> cls, id |-> next_rowid({f \in rows : f.cls = cls}),
             entry_id |-> entry_ids[Len(entry_ids)], type_key |-> field_id,
             position |-> 0,
             value |-> IF cls = "TagBoxField" THEN <<>> ELSE value]
    IN  IF \E i \in DOMAIN entry_ids : flush_fails(rows, cls, field_id, entry_ids[i])
        THEN [ok |-> FALSE, fields |-> rows]
        ELSE IF entry_ids = <<>>
        THEN [ok |-> TRUE, fields |-> rows]
        ELSE [ok |-> TRUE, fields |-> rows \cup {field_model}]

\* add_entry_field_type(entry_ids, field_id=field_id, value=value) on the
\* field rows: the session that stores the field, then update_field_position
add_entry_field_type(rows, entry_ids, field_id, value) ==
    LET stored == add_field_model(rows, entry_ids, field_id, value)
    IN  IF ~stored.ok
        THEN [ret |-> "False", fields |-> rows]
        ELSE [ret |-> "True",
              fields |-> update_field_position(stored.fields,
                                               field_class(field_id), field_id,
                                               Range(entry_ids))]

\* the lists of entry ids a caller passes
EntryIdLists == {<<1>>, <<2>>, <<1, 2>>, <<2, 1>>, <<3>>}

TextValues == {<<"x">>, <<"y">>}

AddEntryFieldType(entry_id_lists, field_ids, values) ==
    /\ pc = "idle"
    /\ lib = "Open"
    /\ \A f \in fields : f.id < MaxFieldId
    /\ \E entry_ids \in entry_id_lists, field_id \in field_ids, value \in values :
          LET done == add_entry_field_type(fields, entry_ids, field_id, value)
          IN  /\ fields' = done.fields
              /\ res' = [op |-> "add_entry_field_type", entry_ids |-> entry_ids,
                         field_id |-> field_id, value |-> value,
                         ret |-> done.ret, before |-> fields]
    /\ pc' = "returned"
    /\ UNCHANGED <<tags, tag_seq, tag_aliases, tag_subtags, entries, tag_fields,
                   preferences, value_types, storage, lib, traversal, runtime,
                   folders>>

\* remove_entry_field(field, entry_ids): the rows of the field's class with
\* its position and type key on the entries are deleted; positions stay
remove_entry_field(field, entry_ids) ==
    LET deleted == {f \in fields : /\ f.cls = field.cls
                                   /\ f.position = field.position
                                   /\ f.type_key = field.type_key
                                   /\ f.entry_id \in entry_ids}
    IN  IF \E f \in deleted, r \in tag_fields :
              f.cls = "TagBoxField" /\ r.field_id = f.id
        THEN [ret |-> "IntegrityError", fields |-> fields]
        ELSE [ret |-> "None", fields |-> fields \ deleted]

RemoveEntryField ==
    /\ pc = "idle"
    /\ lib = "Open"
    /\ \E field \in fields, entry_ids \in SUBSET {e.id : e \in entries} :
          LET done == remove_entry_field(field, entry_ids)
          IN  /\ fields' = done.fields
              /\ res' = [op |-> "remove_entry_field", field |-> field,
                         entry_ids |-> entry_ids, ret |-> done.ret,
                         before |-> fields]
    /\ pc' = "returned"
    /\ UNCHANGED <<tags, tag_seq, tag_aliases, tag_subtags, entries, tag_fields,
                   preferences, value_types, storage, lib, traversal, runtime,
                   folders>>

\* entry.fields of the Entry object the caller loaded
entry_fields(entry_id) == {f \in fields : f.entry_id = entry_id}

\* the fields that the loop "fields[entry_field.type_key] = entry_field" can
\* leave under that key: those of the last entry of the call that has the key
last_with_key(entry_ids, field_key) ==
    LET having == {i \in DOMAIN entry_ids :
                     \E f \in entry_fields(entry_ids[i]) : f.type_key = field_key}
    IN  {f \in entry_fields(entry_ids[Max(having)]) : f.type_key = field_key}

RECURSIVE add_to_entries(_, _, _, _)
\* for entry in entries: add_entry_field_type(entry.id, field_id, field.value)
add_to_entries(rows, entry_ids, field_key, value) ==
    IF entry_ids = <<>> THEN rows
    ELSE add_to_entries(
             add_entry_field_type(rows, <<Head(entry_ids)>>, field_key, value).fields,
             Tail(entry_ids), field_key, value)

RECURSIVE add_missing(_, _, _, _)
\* for field_key, field in fields.items(): if field_key not in existing_fields
add_missing(rows, entry_ids, missing, carried) ==
    IF missing = {} THEN rows
    ELSE LET field_key == CHOOSE k \in missing : TRUE
         IN  add_missing(add_to_entries(rows, entry_ids, field_key,
                                        carried[field_key].value),
                         entry_ids, missing \ {field_key}, carried)

\* mirror_entry_fields(*entries); carried is the dict "fields" of the code
mirror_entry_fields(entry_ids, carried) ==
    LET existing_fields == {f.type_key : f \in entry_fields(entry_ids[1])}
    IN  add_missing(fields, entry_ids, DOMAIN carried \ existing_fields, carried)

MirrorEntryFields(entry_id_lists) ==
    /\ pc = "idle"
    /\ lib = "Open"
    /\ \A f \in fields : f.id < MaxFieldId
    /\ \E entry_ids \in entry_id_lists :
          LET keys == {f.type_key : f \in UNION {entry_fields(entry_ids[i]) :
                                                   i \in DOMAIN entry_ids}}
          IN  \E carried \in [keys -> fields] :
                 /\ \A k \in keys : carried[k] \in last_with_key(entry_ids, k)
                 /\ fields' = mirror_entry_fields(entry_ids, carried)
                 /\ res' = [op |-> "mirror_entry_fields", entries |-> entry_ids,
                            before |-> fields]
    /\ pc' = "returned"
    /\ UNCHANGED <<tags, tag_seq, tag_aliases, tag_subtags, entries, tag_fields,
                   preferences, value_types, storage, lib, traversal, runtime,
                   folders>>

-----------------------------------------------------------------------------
(* SpecFields: fields are added to, removed from and mirrored among entries *)

NextFields ==
    \/ AddEntryFieldType(EntryIdLists, {"TITLE", "TAGS"}, TextValues)
    \/ RemoveEntryField
    \/ AddFieldTag({1, 2}, {t \in LoadedTags : t.id = {DogId}}, {"TAGS"})
    \/ MirrorEntryFields({<<1>>, <<1, 2>>, <<2, 1>>})
    \/ Return

SpecFields == InitLibrary /\ [][NextFields]_vars

\* the rows of a table of fields with that type key on that entry
with_key(rows, entry_id, field_key) ==
    {f \in rows : f.entry_id = entry_id /\ f.type_key = field_key}

\* C6: after mirror_entry_fields, in whatever order the entries were given,
\* every entry of the group has a field of every type key the group had, an
\* entry that lacked a key has one field of it with a value of the group, and
\* an entry that had the key has the fields of that key it had before
C6_MirrorGivesEveryEntryEveryKey ==
    res.op = "mirror_entry_fields" =>
       LET group == Range(res.entries)
           keys == {f.type_key : f \in {g \in res.before : g.entry_id \in group}}
       IN  \A e \in group, k \in keys :
              LET had == with_key(res.before, e, k)
                  has == with_key(fields, e, k)
              IN  /\ has # {}
                  /\ had # {} => {f.id : f \in has} = {f.id : f \in had}
                  /\ had = {} =>
                        /\ Cardinality(has) = 1
                        /\ \A f \in has : \E g \in res.before :
                              /\ g.entry_id \in group
                              /\ g.type_key = k
                              /\ g.value = f.value

\* the field rows that are in the table and were not in it before
added_since(before) ==
    {f \in fields : ~\E g \in before : g.cls = f.cls /\ g.id = f.id}

\* C7: add_entry_field_type that returns True has created one field row of the
\* type key and value on every entry of entry_ids, k rows for k entries, and
\* one that returns False has left the field rows as they were
C7_OneFieldRowPerEntry ==
    res.op = "add_entry_field_type" =>
       IF res.ret = "True"
       THEN /\ Cardinality(added_since(res.before)) = Cardinality(Range(res.entry_ids))
            /\ \A e \in Range(res.entry_ids) :
                  \E f \in added_since(res.before) :
                     /\ f.entry_id = e
                     /\ f.type_key = res.field_id
                     /\ f.cls = "TagBoxField" \/ f.value = res.value
       ELSE fields = res.before

-----------------------------------------------------------------------------
(* SpecTagId: tags are added to and removed from tag boxes, and entries are
   searched by tag id *)

\* requests by the id of a tag, the built-in tags included
TagIdRequests ==
    {FilterState(i, p, {}, {t}, <<>>, <<>>, <<>>) :
       i \in 0 .. MaxPageIndex, p \in 1 .. MaxPageSize,
       t \in {TAG_ARCHIVED, TAG_FAVORITE, DogId}}

NextTagId ==
    \/ AddFieldTag({1, 2}, {t \in LoadedTags : t.id # {AnimalId}}, {"TAGS"})
    \/ RemoveFieldTag({1, 2}, {TAG_ARCHIVED, TAG_FAVORITE, DogId}, {"TAGS"})
    \/ search_library(TagIdRequests)
    \/ Return

SpecTagId == InitLibrary /\ [][NextTagId]_vars

\* C11: after any add_field_tag and remove_field_tag calls, a search by
\* tag_id = t returns exactly the entries that have a tag box with tag t, each
\* once, also for the built-in tags with the ids 0 and 1
C11_TagIdSearchFollowsTagBoxes ==
    (WholeResult /\ res.search.tag_id # {}) =>
       /\ Range(res.items) =
             {e.id : e \in {x \in entries :
                              res.search.tag_id \subseteq entry_tag_ids(x)}}
       /\ \A i, j \in DOMAIN res.items : i # j => res.items[i] # res.items[j]

\* a search by the id of Archived returned the one entry that has it, while
\* the other entry has another tag
C11_ArchivedFound ==
    /\ WholeResult
    /\ res.search.tag_id = {TAG_ARCHIVED}
    /\ res.items = <<2>>
    /\ entry_tag_ids(entry_of(1)) = {DogId}

-----------------------------------------------------------------------------
(* The result of get_all_child_tag_ids *)

RECURSIVE Reachable(_)
\* the tag ids reachable from those of S over rows of tag_subtags, from
\* parent_id to child_id, in zero or more steps
Reachable(S) ==
    LET step == S \cup {r.child_id : r \in {x \in tag_subtags : x.parent_id \in S}}
    IN  IF step = S THEN S ELSE Reachable(step)

\* C12: a call of get_all_child_tag_ids(t) that returns, returns the ids
\* reachable from t over child edges in zero or more steps, t included,
\* whatever the order in which the edges were inserted
C12_ResultIsReachableSet ==
    (res.op = "get_all_child_tag_ids" /\ res.ret = "list") =>
       res.ids = Reachable({res.tag_id})

\* a call returned a descendant that is no child of its tag
C12_GrandchildReturned ==
    /\ res.op = "get_all_child_tag_ids"
    /\ res.ret = "list"
    /\ \E id \in res.ids : id \notin {res.tag_id} \cup subtag_ids(res.tag_id)

-----------------------------------------------------------------------------
(* Entries: add_entries, remove_entries *)

\* the unit of work inserts the items in the order they were added; the first
\* insert that breaks the unique path or names no folder raises IntegrityError
RECURSIVE insert_all(_, _)
insert_all(rows, items) ==
    IF items = <<>> THEN [ok |-> TRUE, rows |-> rows, ids |-> <<>>]
    ELSE IF \/ \E e \in rows : e.path = Head(items).path
            \/ ~\E f \in folders : f.id = Head(items).folder_id
    THEN [ok |-> FALSE, rows |-> rows, ids |-> <<>>]
    ELSE LET id == next_rowid(rows)
             rest == insert_all(rows \cup {Entry(id, Head(items).path,
                                                 Head(items).folder_id)},
                                Tail(items))
         IN  [rest EXCEPT !.ids = <<id>> \o @]

\* the cascade of session.add_all to the fields of one new entry: a row per
\* field, with the rowid of its table, and a row of tag_fields per tag of a
\* tag box; a second tag box of one type key and a tag id of no tag raise
\* IntegrityError
RECURSIVE insert_fields(_, _, _, _)
insert_fields(rows, links, entry_id, item_fields) ==
    IF item_fields = <<>>
    THEN [ok |-> TRUE, fields |-> rows, tag_fields |-> links]
    ELSE LET field == Head(item_fields)
             id == next_rowid({r \in rows : r.cls = field.cls})
             row == [cls |-> field.cls, id |-> id, entry_id |-> entry_id,
                     type_key |-> field.type_key, position |-> field.position,
                     value |-> field.value]
         IN  IF \/ /\ field.cls = "TagBoxField"
                   /\ slot(rows, field.cls, field.type_key, entry_id) # {}
                \/ \E t \in field.tags : ~\E tag \in tags : tag.id = t
             THEN [ok |-> FALSE, fields |-> rows, tag_fields |-> links]
             ELSE insert_fields(rows \cup {row},
                                links \cup {[field_id |-> id, tag_id |-> t] :
                                              t \in field.tags},
                                entry_id, Tail(item_fields))

\* the fields of all items, item by item
RECURSIVE insert_item_fields(_, _, _, _)
insert_item_fields(rows, links, ids, items) ==
    IF ids = <<>> THEN [ok |-> TRUE, fields |-> rows, tag_fields |-> links]
    ELSE LET one == insert_fields(rows, links, Head(ids), Head(items).fields)
         IN  IF ~one.ok THEN one
             ELSE insert_item_fields(one.fields, one.tag_fields, Tail(ids),
                                     Tail(items))

\* add_entries where every item is committed on its own
add_entries_one_by_one(items) ==
    LET done == insert_all(entries, items)
        stored == insert_item_fields(fields, tag_fields, done.ids, items)
    IN  IF done.ok /\ stored.ok
        THEN [ret |-> done.ids, entries |-> done.rows, fields |-> stored.fields,
              tag_fields |-> stored.tag_fields]
        ELSE [ret |-> <<>>, entries |-> done.rows, fields |-> fields,
              tag_fields |-> tag_fields]

\* add_entries(items): session.add_all(items) and one commit; IntegrityError
\* rolls the session back and returns []
add_entries(items) ==
    LET done == insert_all(entries, items)
        stored == insert_item_fields(fields, tag_fields, done.ids, items)
    IN  IF done.ok /\ stored.ok
        THEN [ret |-> done.ids, entries |-> done.rows, fields |-> stored.fields,
              tag_fields |-> stored.tag_fields]
        ELSE [ret |-> <<>>, entries |-> entries, fields |-> fields,
              tag_fields |-> tag_fields]

\* new Entry objects, by path: one path is that of an entry of the library
NewPaths == {<<"a", ".", "t">>, <<"c">>, <<"d">>}

\* the lists of new Entry objects a caller passes ("assert items")
NewItemLists ==
    LET item(path) == [path |-> path, folder_id |-> 1, fields |-> <<>>]
    IN  {<<item(p)>> : p \in NewPaths} \cup
        {<<item(p), item(q)>> : p \in NewPaths, q \in NewPaths}

AddEntries(item_lists) ==
    /\ pc = "idle"
    /\ lib = "Open"
    /\ \A e \in entries : e.id < MaxEntryId
    /\ \E items \in item_lists :
          LET done == add_entries(items)
          IN  /\ entries' = done.entries
              /\ fields' = done.fields
              /\ tag_fields' = done.tag_fields
              /\ added' = {a \in added : a.id \notin Range(done.ret)} \cup
                          {[id |-> done.ret[i], path |-> items[i].path,
                            fields |-> items[i].fields] : i \in DOMAIN done.ret}
              /\ res' = [op |-> "add_entries", items |-> items, ret |-> done.ret,
                         before |-> entries]
    /\ pc' = "returned"
    /\ UNCHANGED <<tags, tag_seq, tag_aliases, tag_subtags, preferences,
                   value_types, storage, lib, traversal, engine, files,
                   concurrent, qt, folders>>

remove_entries_with_fields_left(entry_ids) ==
    [ret |-> "None", entries |-> {e \in entries : e.id \notin entry_ids}]

\* remove_entries(entry_ids): one DELETE on table entries; a field row that
\* refers to a deleted entry makes it fail
remove_entries(entry_ids) ==
    IF \E f \in fields : f.entry_id \in entry_ids
    THEN [ret |-> "IntegrityError", entries |-> entries]
    ELSE [ret |-> "None", entries |-> {e \in entries : e.id \notin entry_ids}]

RemoveEntries ==
    /\ pc = "idle"
    /\ lib = "Open"
    /\ \E entry_ids \in SUBSET {e.id : e \in entries} :
          LET done == remove_entries(entry_ids)
          IN  /\ entries' = done.entries
              /\ res' = [op |-> "remove_entries", entry_ids |-> entry_ids,
                         ret |-> done.ret, before |-> entries]
    /\ pc' = "returned"
    /\ UNCHANGED <<tags, tag_seq, tag_aliases, tag_subtags, fields, tag_fields,
                   preferences, value_types, storage, lib, traversal, runtime,
                   folders>>

NextEntries ==
    \/ AddEntries(NewItemLists)
    \/ RemoveEntries
    \/ Return

SpecEntries == InitLibrary /\ [][NextEntries]_vars

\* an item of the call has the path of a stored entry or of another item
PathConflict ==
    \/ \E i \in DOMAIN res.items, e \in res.before : res.items[i].path = e.path
    \/ \E i, j \in DOMAIN res.items :
          i # j /\ res.items[i].path = res.items[j].path

\* C13: add_entries with an item whose path is that of a stored entry or of
\* another item stores nothing and returns no id; otherwise it stores every
\* item and returns one new id for each
C13_AddEntriesAllOrNothing ==
    res.op = "add_entries" =>
       IF PathConflict
       THEN entries = res.before /\ res.ret = <<>>
       ELSE /\ Len(res.ret) = Len(res.items)
            /\ \A i, j \in DOMAIN res.ret : i # j => res.ret[i] # res.ret[j]
            /\ \A i \in DOMAIN res.ret :
                  /\ ~\E e \in res.before : e.id = res.ret[i]
                  /\ \E e \in entries :
                        e.id = res.ret[i] /\ e.path = res.items[i].path
            /\ res.before \subseteq entries
            /\ Cardinality(entries) = Cardinality(res.before) + Len(res.items)

\* a call whose first item is new and whose second item has the path of a
\* stored entry has returned
C13_SecondItemConflicts ==
    /\ res.op = "add_entries"
    /\ Len(res.items) = 2
    /\ ~\E e \in res.before : e.path = res.items[1].path
    /\ \E e \in res.before : e.path = res.items[2].path

-----------------------------------------------------------------------------
(* SpecTags: tags are created and edited with their subtags and aliases *)

\* update_tag(tag, subtag_ids, alias_names, alias_ids): add_tag is called and
\* its result is dropped
update_tag(tag, subtags_arg, alias_names, alias_ids) ==
    [add_tag(tag, subtags_arg, alias_names, alias_ids) EXCEPT !.ret = {}]

\* the names a caller gives a tag: one of a tag of the library and a new one
TagNames == {dog, <<"c">>}

\* new Tag objects and objects of get_tag with the name edited or not
EditedTags ==
    {TagObject({}, n, TRUE) : n \in TagNames} \cup
    UNION {{TagObject({t.id}, n, FALSE) : n \in TagNames \cup {t.name}} :
             t \in {x \in tags : x.id \in {TAG_FAVORITE, DogId}}}

\* subtag_ids: None, or a set of ids; one set holds the id of no tag
SubtagArgs ==
    {{}, {{}}, {{AnimalId, DogId}},
     {{AnimalId, RESERVED_TAG_ID + MaxUserTags + 1}}}

\* alias_ids and alias_names: None, or a set of ids and a set of names in the
\* order the loop takes it
AliasArgs ==
    {<<{}, {}>>, <<{{}}, {<<>>}>>, <<{{2}}, {<<Favorited, <<"x">>>>}>>,
     <<{{2, 3}}, {<<<<"x">>, Favorites>>}>>, <<{{3}}, {<<Favorited>>}>>}

\* the result of add_tag or update_tag with what the call found and did
TagResult(op, tag, subtags_arg, alias_names, alias_ids, done, ret) ==
    [op |-> op, tag |-> tag, subtag_ids |-> subtags_arg,
     alias_names |-> alias_names, alias_ids |-> alias_ids,
     ret |-> ret, stored |-> done.ret,
     subtags_done |-> done.subtags_done, aliases_done |-> done.aliases_done,
     before |-> [tags |-> tags, tag_subtags |-> tag_subtags,
                 tag_aliases |-> tag_aliases]]

\* add_tag or update_tag with subtag_ids, alias_names and alias_ids
EditTag(ops, subtag_args, alias_args) ==
    /\ pc = "idle"
    /\ lib = "Open"
    /\ tag_seq < RESERVED_TAG_ID + MaxUserTags
    /\ \A a \in tag_aliases : a.id < MaxAliasId
    /\ \E op \in ops, tag \in EditedTags, subtags_arg \in subtag_args,
          alias_arg \in alias_args :
          LET alias_ids == alias_arg[1]
              alias_names == alias_arg[2]
              done == add_tag(tag, subtags_arg, alias_names, alias_ids)
              ret == IF op = "update_tag"
                     THEN update_tag(tag, subtags_arg, alias_names, alias_ids).ret
                     ELSE done.ret
          IN  /\ tags' = done.tags
              /\ tag_seq' = done.tag_seq
              /\ tag_subtags' = done.tag_subtags
              /\ tag_aliases' = done.tag_aliases
              /\ res' = TagResult(op, tag, subtags_arg, alias_names, alias_ids,
                                  done, ret)
    /\ pc' = "returned"
    /\ UNCHANGED <<entries, fields, tag_fields, preferences, value_types,
                   storage, lib, traversal, runtime,
                   folders>>

NextTags ==
    \/ EditTag({"add_tag", "update_tag"}, SubtagArgs, AliasArgs)
    \/ Return

SpecTags == InitLibrary /\ [][NextTags]_vars

\* the call was made with a tag whose name another tag of the library has
NameTaken ==
    \E t \in res.before.tags : t.name = res.tag.name /\ t.id \notin res.tag.id

\* every id of subtag_ids is the id of a tag
SubtagsExist ==
    \A ids \in res.subtag_ids :
       ids \subseteq {t.id : t \in res.before.tags} \cup res.tag.id

\* C14: add_tag and update_tag with a name that another tag has return no tag
\* and leave the tags, the subtag edges and the aliases as they were, also with
\* subtag ids and aliases in the call; with a name not yet used they return
\* the stored tag
C14_NameConflictHasNoEffect ==
    res.op \in {"add_tag", "update_tag"} =>
       IF NameTaken
       THEN /\ res.ret = {}
            /\ tags = res.before.tags
            /\ tag_subtags = res.before.tag_subtags
            /\ tag_aliases = res.before.tag_aliases
       ELSE SubtagsExist =>
               \E t \in tags : t.id \in res.ret /\ t.name = res.tag.name

\* the part of C14 on the library's tables holds for both calls, and add_tag
\* returns the stored tag
C14_NoPartialEffect ==
    res.op \in {"add_tag", "update_tag"} =>
       IF NameTaken
       THEN /\ res.stored = {}
            /\ tags = res.before.tags
            /\ tag_subtags = res.before.tag_subtags
            /\ tag_aliases = res.before.tag_aliases
       ELSE SubtagsExist =>
               /\ \E t \in tags : t.id \in res.stored /\ t.name = res.tag.name
               /\ res.op = "add_tag" => res.ret = res.stored

\* C15: after update_subtags(tag, D), reached through add_tag or update_tag
\* that succeeds, the child edges of the tag are those to D without the tag's
\* own id, an edge that was there and is in D was neither deleted nor inserted,
\* and the edges of other parents are as before
C15_ChildEdgesAreDesiredSet ==
    (res.op \in {"add_tag", "update_tag"} /\ res.stored # {}) =>
       \A D \in res.subtag_ids, id \in res.stored, done \in res.subtags_done :
          /\ {r.child_id : r \in {x \in tag_subtags : x.parent_id = id}} = D \ {id}
          /\ \A r \in res.before.tag_subtags :
                (r.parent_id = id /\ r.child_id \in D) =>
                   /\ r \in tag_subtags
                   /\ r \notin done.deleted
                   /\ r \notin done.inserted
          /\ {r \in tag_subtags : r.parent_id # id} =
             {r \in res.before.tag_subtags : r.parent_id # id}

\* a call whose subtag_ids hold the tag's own id kept an edge of the tag
C15_EdgeKeptAndSelfDropped ==
    /\ res.op \in {"add_tag", "update_tag"}
    /\ \E D \in res.subtag_ids, id \in res.stored :
          /\ id \in D
          /\ \E r \in res.before.tag_subtags :
                r.parent_id = id /\ r.child_id \in D /\ r \in tag_subtags

\* C16: after update_aliases(tag, alias_ids, alias_names), reached through
\* add_tag or update_tag that succeeds, an alias of the tag is kept as it was if
\* and only if its id is in alias_ids and its name in alias_names, every other
\* alias of the tag is gone, every requested name that no kept alias carries
\* has one new row, and the aliases of other tags are as before
C16_AliasesKeptRemovedInserted ==
    (res.op \in {"add_tag", "update_tag"} /\ res.stored # {}) =>
       \A ids \in res.alias_ids, names \in res.alias_names, id \in res.stored :
          LET prev == {a \in res.before.tag_aliases : a.tag_id = id}
              now == {a \in tag_aliases : a.tag_id = id}
              kept == {a \in prev : a.id \in ids /\ a.name \in Range(names)}
              fresh == {a \in now : ~\E b \in res.before.tag_aliases : b.id = a.id}
          IN  /\ \A a \in prev : a \in now <=> a \in kept
              /\ now = kept \cup fresh
              /\ {a.name : a \in fresh} = Range(names) \ {a.name : a \in kept}
              /\ Cardinality(fresh) = Cardinality({a.name : a \in fresh})
              /\ {a.name : a \in now} = Range(names)
              /\ {a \in tag_aliases : a.tag_id # id} =
                 {a \in res.before.tag_aliases : a.tag_id # id}

\* one call kept an alias, removed another and inserted a new one
C16_KeptRemovedAndInserted ==
    /\ res.op \in {"add_tag", "update_tag"}
    /\ res.stored # {}
    /\ \E done \in res.aliases_done :
          /\ done.deleted # {}
          /\ done.inserted # {}
          /\ \E a \in res.before.tag_aliases :
                a \in tag_aliases /\ a.tag_id \in res.stored

\* the positions of the rows are 0 .. n-1 in the order of the ids
Dense(rows) ==
    /\ {f.position : f \in rows} = 0 .. (Cardinality(rows) - 1)
    /\ \A f \in rows, g \in rows : f.id < g.id => f.position < g.position

\* C17: after add_entry_field_type returns True, on every entry of the call
\* the fields of the added type key have the positions 0 .. n-1, without gap
\* or duplicate and in the order of the field ids, also when fields of the key
\* were removed before
C17_PositionsDenseInIdOrder ==
    (res.op = "add_entry_field_type" /\ res.ret = "True") =>
       \A i \in DOMAIN res.entry_ids :
          Dense(slot(fields, field_class(res.field_id), res.field_id,
                     res.entry_ids[i]))

\* a field was added to an entry whose fields of the key had a gap left by
\* remove_entry_field
C17_GapClosed ==
    /\ res.op = "add_entry_field_type"
    /\ res.ret = "True"
    /\ \E i \in DOMAIN res.entry_ids :
          LET cls == field_class(res.field_id)
              was == slot(res.before, cls, res.field_id, res.entry_ids[i])
              now == slot(fields, cls, res.field_id, res.entry_ids[i])
          IN  /\ was # {}
              /\ ~Dense(was)
              /\ Cardinality(now) > Cardinality(was)

\* the rows remove_entry_field(field, entry_ids) is to delete
matching_rows(rows, field, entry_ids) ==
    {f \in rows : /\ f.cls = field.cls
                  /\ f.position = field.position
                  /\ f.type_key = field.type_key
                  /\ f.entry_id \in entry_ids}

\* C18: remove_entry_field(field, entry_ids) deletes the rows of the field's
\* class with the position and type key of the field on the entries of
\* entry_ids, and every other row stays as it was, its position included
C18_RemovesExactlyMatchingRows ==
    res.op = "remove_entry_field" =>
       fields = res.before \ matching_rows(res.before, res.field, res.entry_ids)

\* the same for the calls that return
C18_RemovesMatchingRowsOnReturn ==
    (res.op = "remove_entry_field" /\ res.ret = "None") =>
       fields = res.before \ matching_rows(res.before, res.field, res.entry_ids)

-----------------------------------------------------------------------------
(* SpecName: entries are added and removed, and the library is searched by
   name *)

\* paths with the same letter in a directory name, in the file name, in both
NamePaths == {<<"b", "/", "b">>, <<"b", "/", "c">>, <<"c", "b">>}

NameItemLists == {<<[path |-> p, folder_id |-> 1, fields |-> <<>>]>> : p \in NamePaths}

\* requests by name, in either case of the letter
NameRequests ==
    {FilterState(i, p, {}, {}, <<>>, n, <<>>) :
       i \in 0 .. MaxPageIndex, p \in 1 .. MaxPageSize,
       n \in {<<"b">>, <<"B">>, <<"t">>}}

NextName ==
    \/ AddEntries(NameItemLists)
    \/ RemoveEntries
    \/ search_library(NameRequests)
    \/ Return

SpecName == InitLibrary /\ [][NextName]_vars

\* the last component of a path
FileName(path) ==
    LET slashes == {i \in DOMAIN path : path[i] = "/"}
    IN  IF slashes = {} THEN path
        ELSE SubSeq(path, Max(slashes) + 1, Len(path))

\* s occurs in text, without regard to case
Contains(text, s) ==
    \E i \in 1 .. (Len(text) - Len(s) + 1) :
       \A j \in 1 .. Len(s) : lower(text[i + j - 1]) = lower(s[j])

\* C19: a search by name = s returns an entry if and only if s occurs in its
\* path other than only in a directory name, that is in its file name: also
\* when a directory name holds s as well, and not when only directory names
\* hold s
C19_NameMatchesFileName ==
    (WholeResult /\ res.search.name # <<>>) =>
       Range(res.items) =
          {e.id : e \in {x \in entries : Contains(FileName(x.path), res.search.name)}}

\* what the claim says of the entries with s in no directory name, and of
\* those with s in no file name
C19_NameInOnePlace ==
    (WholeResult /\ res.search.name # <<>>) =>
       \A e \in entries :
          LET in_file == Contains(FileName(e.path), res.search.name)
              in_path == Contains(e.path, res.search.name)
              in_dir == Contains(SubSeq(e.path, 1, Len(e.path) - Len(FileName(e.path))),
                                 res.search.name)
          IN  /\ (in_file /\ ~in_dir) => e.id \in Range(res.items)
              /\ ~in_file => e.id \notin Range(res.items)

-----------------------------------------------------------------------------
(* SpecTagSearch: tags and aliases are edited, and the tags are searched *)

\* column.icontains(other): lower(column) LIKE '%' || lower(other) || '%'
icontains(column, other) == ilike(column, <<"%">> \o other \o <<"%">>)

\* the rows of select(Tag) with the where clause of search_tags; a shorthand
\* that is NULL matches nothing
tags_where(search) ==
    IF search.tag # <<>>
    THEN {t \in tags : \/ icontains(t.name, search.tag)
                       \/ \E sh \in t.shorthand : icontains(sh, search.tag)}
    ELSE tags

\* search_tags(search): the first search.limit rows of the scan of table tags
search_tags(search) ==
    LET scan == table_scan({[entry |-> t.id] : t \in tags_where(search)})
        k == Min({Len(scan), limit(search)})
    IN  [i \in 1 .. k |-> scan[i].entry]

\* the queries of the tag panel: none, a name, an alias, parts of them
TagQueries ==
    {FilterState(0, p, {}, {}, q, <<>>, <<>>) :
       p \in 1 .. MaxPageSize,
       q \in {<<>>, Favorite, <<"f", "a", "v", "o", "r", "i", "t", "e", "d">>,
              <<"O">>, <<"x">>}}

SearchTags(requests) ==
    /\ pc = "idle"
    /\ lib = "Open"
    /\ \E search \in requests :
          res' = [op |-> "search_tags", search |-> search,
                  items |-> search_tags(search)]
    /\ pc' = "returned"
    /\ UNCHANGED <<db, storage, lib, traversal, runtime>>

NextTagSearch ==
    \/ EditTag({"add_tag", "update_tag"}, {{}}, AliasArgs)
    \/ SearchTags(TagQueries)
    \/ Return

SpecTagSearch == InitLibrary /\ [][NextTagSearch]_vars

\* the tags a query matches by one of the names the claim lists
named_by(query, with_aliases) ==
    {t.id : t \in {x \in tags :
        \/ icontains(x.name, query)
        \/ \E sh \in x.shorthand : icontains(sh, query)
        \/ /\ with_aliases
           /\ \E a \in tag_aliases : a.tag_id = x.id /\ icontains(a.name, query)}}

\* the result holds the tags of that set, all of them or as many as the limit
UpToLimit(expected) ==
    /\ Range(res.items) \subseteq expected
    /\ Len(res.items) = Cardinality(Range(res.items))
    /\ Len(res.items) = Min({Cardinality(expected), res.search.page_size})

\* C20: search_tags returns, up to the limit, every tag whose name, shorthand
\* or one of whose aliases the query matches without regard to case; a tag
\* that only an alias matches is found
C20_TagFoundByNameShorthandOrAlias ==
    (res.op = "search_tags" /\ res.search.tag # <<>>) =>
       UpToLimit(named_by(res.search.tag, TRUE))

\* the same without the aliases
C20_TagFoundByNameOrShorthand ==
    (res.op = "search_tags" /\ res.search.tag # <<>>) =>
       UpToLimit(named_by(res.search.tag, FALSE))

-----------------------------------------------------------------------------
(* Claims on the life cycle of the Library object *)

\* C21: close() returns without raising in state Closed, before any open and
\* after a close, and in state Open; after it storage_path is None (Closed),
\* and after an open_library that follows the library is Open
C21_CloseIsSafeInEveryState ==
    /\ res.op = "close" => (res.ret = "None" /\ lib = "Closed")
    /\ res.op = "open_library" => lib = "Open"

\* the same for a Library object that was opened at least once
C21_CloseIsSafeAfterAnOpen ==
    /\ (res.op = "close" /\ engine # "unset") =>
          (res.ret = "None" /\ lib = "Closed")
    /\ res.op = "open_library" => lib = "Open"

-----------------------------------------------------------------------------
(* SpecBackup: backups of the storage file of an open library *)

\* the directories of backups: the one makedirs is called with, and the one
\* the target path lies in
BackupDirs == {<<BACKUP_FOLDER_NAME>>, <<DATADIR, BACKUP_FOLDER_NAME>>}

\* save_library_backup_to_disk() at that second: makedirs, then shutil.copy2
\* of the storage file to the target path
save_library_backup_to_disk(at) ==
    LET made == dirs \cup {<<BACKUP_FOLDER_NAME>>}
        filename == <<"ts_library_backup_", at>>
        target_path == <<DATADIR, BACKUP_FOLDER_NAME, filename>>
    IN  IF <<DATADIR, BACKUP_FOLDER_NAME>> \notin made
        THEN [ret |-> "FileNotFoundError", dirs |-> made, backups |-> backups]
        ELSE [ret |-> target_path, dirs |-> made,
              backups |-> {b \in backups : b.name # filename} \cup
                          {[name |-> filename, content |-> connected]}]

SaveLibraryBackupToDisk ==
    /\ pc = "idle"
    /\ lib = "Open"
    /\ storage
    /\ LET done == save_library_backup_to_disk(clock)
       IN  /\ dirs' = done.dirs
           /\ backups' = done.backups
           /\ res' = [op |-> "save_library_backup_to_disk", ret |-> done.ret,
                      at |-> clock,
                      before |-> [dirs |-> dirs, backups |-> backups,
                                  tables |-> connected]]
    /\ pc' = "returned"
    /\ UNCHANGED <<db, storage, lib, traversal, engine, clock, concurrent, history, qt>>

\* a directory is made from outside the library (a file manager, an earlier
\* release of the program)
MakeDirs(paths) ==
    /\ \E d \in paths : d \notin dirs /\ dirs' = dirs \cup {d}
    /\ UNCHANGED <<db, storage, lib, pc, res, traversal, engine, backups, clock,
                   concurrent, history, qt>>

\* a second passes
Tick ==
    /\ clock < MaxClock
    /\ clock' = clock + 1
    /\ UNCHANGED <<db, storage, lib, pc, res, traversal, engine, dirs, backups,
                   concurrent, history, qt>>

NextBackup ==
    \/ SaveLibraryBackupToDisk
    \/ MakeDirs({<<DATADIR, BACKUP_FOLDER_NAME>>})
    \/ Tick
    \/ AddSubtag({AnimalId, DogId})
    \/ RemoveSubtag({AnimalId, DogId})
    \/ Return

SpecBackup == InitLibrary /\ [][NextBackup]_vars

\* C22: save_library_backup_to_disk on an open library with a storage file, also
\* when no directory of backups exists yet, copies the storage file to a file
\* named by the time under <data dir>/backups, returns the path of that file,
\* and leaves the storage file and the rows of every table as they were
C22_BackupIsCopiedAndReturned ==
    res.op = "save_library_backup_to_disk" =>
       /\ \E b \in backups :
             /\ res.ret = <<DATADIR, BACKUP_FOLDER_NAME, b.name>>
             /\ b.name = <<"ts_library_backup_", res.at>>
             /\ b.content = res.before.tables
       /\ connected = res.before.tables
       /\ storage

\* the same for a library whose directory <data dir>/backups exists
C22_BackupWithDirectory ==
    (/\ res.op = "save_library_backup_to_disk"
     /\ <<DATADIR, BACKUP_FOLDER_NAME>> \in res.before.dirs) =>
       /\ \E b \in backups :
             /\ res.ret = <<DATADIR, BACKUP_FOLDER_NAME, b.name>>
             /\ b.name = <<"ts_library_backup_", res.at>>
             /\ b.content = res.before.tables
       /\ connected = res.before.tables
       /\ storage

-----------------------------------------------------------------------------
(* SpecBuiltin: the tags of an open library are edited and deleted, and the
   library is closed and opened again *)

\* alias_ids and alias_names of a caller that leaves the aliases alone, or
\* removes them all
NoAliasArgs == {<<{}, {}>>, <<{{}}, {<<>>}>>}

NextBuiltin ==
    \/ EditTag({"add_tag", "update_tag"}, {{}}, NoAliasArgs)
    \/ DeleteTag
    \/ Close
    \/ OpenLibrary({"dir"})
    \/ Return

SpecBuiltin == InitLibrary /\ [][NextBuiltin]_vars

\* C23: in every state of an open library, after any calls of add_tag,
\* update_tag, delete_item, close and open_library, the tag with id 0 is named
\* "Archived" and the tag with id 1 is named "Favorite"
C23_BuiltinTagsAlwaysExist ==
    lib = "Open" =>
       /\ \E t \in tags : t.id = TAG_ARCHIVED /\ t.name = Archived
       /\ \E t \in tags : t.id = TAG_FAVORITE /\ t.name = Favorite

\* C24: no entry has two tag boxes of one type key; add_entry_field_type and
\* add_field_tag with CREATE that would give an entry a second tag box of a key
\* are rejected and change nothing
C24_OneTagBoxPerEntryAndKey ==
    /\ \A f \in fields, g \in fields :
          (/\ f.cls = "TagBoxField" /\ g.cls = "TagBoxField"
           /\ f.entry_id = g.entry_id /\ f.type_key = g.type_key) => f = g
    /\ (/\ res.op = "add_entry_field_type"
        /\ field_class(res.field_id) = "TagBoxField"
        /\ \E i \in DOMAIN res.entry_ids :
              slot(res.before, "TagBoxField", res.field_id, res.entry_ids[i]) # {})
       => (res.ret = "False" /\ fields = res.before)
    /\ (/\ res.op = "add_field_tag"
        /\ res.missing_field = "CREATE"
        /\ slot(res.before.fields, "TagBoxField", res.field_key, res.entry_id) # {})
       => {f \in fields : f.cls = "TagBoxField"} =
          {f \in res.before.fields : f.cls = "TagBoxField"}

\* a second tag box of the key was refused on an entry of the library
C24_SecondTagBoxRejected ==
    /\ res.op = "add_entry_field_type"
    /\ res.ret = "False"
    /\ field_class(res.field_id) = "TagBoxField"
    /\ \A i \in DOMAIN res.entry_ids : \E e \in entries : e.id = res.entry_ids[i]

-----------------------------------------------------------------------------
(* SpecFolders: folders, entries and their fields are added and removed *)

\* add_folder(path): a folder with a path of the library raises IntegrityError
\* and None is returned
add_folder(path) ==
    IF \E f \in folders : f.path = path
    THEN [ret |-> {}, folders |-> folders]
    ELSE LET id == next_rowid(folders)
         IN  [ret |-> {id}, folders |-> folders \cup {[id |-> id, path |-> path]}]

AddFolder(paths) ==
    /\ pc = "idle"
    /\ lib = "Open"
    /\ \A f \in folders : f.id < MaxFolderId
    /\ \E path \in paths :
          LET done == add_folder(path)
          IN  /\ folders' = done.folders
              /\ res' = [op |-> "add_folder", path |-> path, ret |-> done.ret]
    /\ pc' = "returned"
    /\ UNCHANGED <<tags, tag_seq, tag_aliases, tag_subtags, entries, fields,
                   tag_fields, preferences, value_types, storage, lib, traversal,
                   runtime>>

\* remove_folder(folder): session.delete(folder) and commit; the entries of the
\* folder go with it, and with them their fields and the rows of tag_fields of
\* their tag boxes
remove_folder(folder_id) ==
    LET gone == {e.id : e \in {x \in entries : x.folder_id = folder_id}}
        boxes == {f.id : f \in {x \in fields : /\ x.cls = "TagBoxField"
                                               /\ x.entry_id \in gone}}
    IN  [ret |-> "True",
         folders |-> {f \in folders : f.id # folder_id},
         entries |-> {e \in entries : e.id \notin gone},
         fields |-> {f \in fields : f.entry_id \notin gone},
         tag_fields |-> {r \in tag_fields : r.field_id \notin boxes}]

RemoveFolder ==
    /\ pc = "idle"
    /\ lib = "Open"
    /\ \E folder \in folders :
          LET done == remove_folder(folder.id)
          IN  /\ folders' = done.folders
              /\ entries' = done.entries
              /\ fields' = done.fields
              /\ tag_fields' = done.tag_fields
              /\ res' = [op |-> "remove_folder", folder_id |-> folder.id,
                         ret |-> done.ret,
                         before |-> [entries |-> entries, fields |-> fields]]
    /\ pc' = "returned"
    /\ UNCHANGED <<tags, tag_seq, tag_aliases, tag_subtags, preferences,
                   value_types, storage, lib, traversal, runtime>>

\* new Entry objects in a folder of the library, or with the id of no folder
FolderItemLists ==
    {<<[path |-> p, folder_id |-> f, fields |-> <<>>]>> :
       p \in {<<"c">>, <<"d">>}, f \in 1 .. (MaxFolderId + 1)}

NextFolders ==
    \/ AddFolder({"/dev/null/", "/mnt/"})
    \/ RemoveFolder
    \/ AddEntries(FolderItemLists)
    \/ RemoveEntries
    \/ AddEntryFieldType({<<1>>, <<2>>, <<3>>}, {"TITLE"}, {<<"x">>})
    \/ Return

SpecFolders == InitLibrary /\ [][NextFolders]_vars

C25_EntriesRemoved ==
    /\ res.op = "remove_entries"
    /\ res.ret = "None"
    /\ res.entry_ids # {}
    /\ fields # {}

-----------------------------------------------------------------------------
(* calls of several threads on one library *)

\* the calls of add_entry_field_type of other threads than t that have
\* committed their field and have not opened the session of
\* update_field_position yet
pending_adds(t) ==
    {[entry_ids |-> threads[u].entry_ids, field_id |-> threads[u].field_id] :
       u \in {v \in Threads \ {t} : threads[v].pc = "stored"}}

\* add_entry_field_type up to the commit of its first session
ThreadAddStore(t, entry_id_lists, field_ids, values) ==
    /\ lib = "Open"
    /\ threads[t].pc = "idle"
    /\ \A f \in fields : f.id < MaxFieldId
    /\ \E entry_ids \in entry_id_lists, field_id \in field_ids, value \in values :
          LET stored == add_field_model(fields, entry_ids, field_id, value)
          IN  /\ fields' = stored.fields
              /\ threads' = [threads EXCEPT ![t] =
                   [pc |-> IF stored.ok THEN "stored" ELSE "idle",
                    op |-> "add_entry_field_type", entry_ids |-> entry_ids,
                    field_id |-> field_id,
                    ret |-> IF stored.ok THEN "" ELSE "False",
                    seen |-> fields, left |-> stored.fields,
                    pending |-> pending_adds(t)]]
    /\ UNCHANGED <<tags, tag_seq, tag_aliases, tag_subtags, entries, folders,
                   tag_fields, preferences, value_types, storage, lib, pc, res,
                   traversal, engine, files, history, qt>>

\* add_entry_field_type from the call of update_field_position to its return
ThreadAddRenumber(t) ==
    /\ threads[t].pc = "stored"
    /\ LET call == threads[t]
       IN  /\ fields' = update_field_position(fields, field_class(call.field_id),
                                              call.field_id, Range(call.entry_ids))
           /\ threads' = [threads EXCEPT ![t] =
                [call EXCEPT !.pc = "idle", !.ret = "True", !.seen = fields,
                             !.left = fields', !.pending = pending_adds(t)]]
    /\ UNCHANGED <<tags, tag_seq, tag_aliases, tag_subtags, entries, folders,
                   tag_fields, preferences, value_types, storage, lib, pc, res,
                   traversal, engine, files, history, qt>>

\* remove_entry_field called by thread t
ThreadRemove(t, entry_id_sets) ==
    /\ lib = "Open"
    /\ threads[t].pc = "idle"
    /\ \E field \in fields, entry_ids \in entry_id_sets :
          LET done == remove_entry_field(field, entry_ids)
          IN  /\ fields' = done.fields
              /\ threads' = [threads EXCEPT ![t] =
                   [pc |-> "idle", op |-> "remove_entry_field",
                    entry_ids |-> <<>>, field_id |-> field.type_key,
                    ret |-> done.ret, seen |-> fields, left |-> done.fields,
                    pending |-> pending_adds(t)]]
    /\ UNCHANGED <<tags, tag_seq, tag_aliases, tag_subtags, entries, folders,
                   tag_fields, preferences, value_types, storage, lib, pc, res,
                   traversal, engine, files, history, qt>>

\* search_library called by thread t: the entries are loaded with their fields
ThreadSearch(t) ==
    /\ lib = "Open"
    /\ threads[t].pc = "idle"
    /\ threads' = [threads EXCEPT ![t] =
         [pc |-> "idle", op |-> "search_library", entry_ids |-> <<>>,
          field_id |-> "", ret |-> "SearchResult", seen |-> fields,
          left |-> fields, pending |-> pending_adds(t)]]
    /\ UNCHANGED <<db, storage, lib, pc, res, traversal, engine, files, history, qt>>

NextThreads ==
    \E t \in Threads :
       \/ ThreadAddStore(t, {<<1>>}, {"TITLE"}, {<<"x">>})
       \/ ThreadAddRenumber(t)
       \/ ThreadRemove(t, {{1}})
       \/ ThreadSearch(t)

SpecThreads == InitLibrary /\ [][NextThreads]_vars

\* the positions of the fields that a call of add_entry_field_type stored are
\* 0..n-1 in the table rows
Renumbered(rows, call) ==
    \A i \in DOMAIN call.entry_ids :
       Dense(slot(rows, field_class(call.field_id), call.field_id,
                  call.entry_ids[i]))

\* C26: add_entry_field_type is atomic towards the calls of other threads: no
\* call of another thread (search_library, remove_entry_field, a second
\* add_entry_field_type) reads or changes a table in which the new field is
\* stored and the positions of its entry and type key are not renumbered, and
\* when every call has returned the positions are 0..n-1
C26_AddEntryFieldIsAtomic ==
    /\ \A t \in Threads : \A call \in threads[t].pending :
          Renumbered(threads[t].seen, call)
    /\ (\A t \in Threads : threads[t].pc = "idle") =>
          \A t \in Threads :
             (threads[t].op = "add_entry_field_type" /\ threads[t].ret = "True")
                => Renumbered(fields, threads[t])

\* C26, for the call alone: a call of add_entry_field_type that returned True
\* left the positions of its entry and type key as 0..n-1, and a call during
\* which no other add_entry_field_type was between its two sessions read
\* no position twice
C26_RenumberedOnReturn ==
    \A t \in Threads :
       /\ (threads[t].pc = "idle" /\ threads[t].op = "add_entry_field_type"
             /\ threads[t].ret = "True") => Renumbered(threads[t].left, threads[t])
       /\ (threads[t].pending = {} /\ threads[t].op # "add_entry_field_type") =>
             \A f \in threads[t].seen, g \in threads[t].seen :
                (f.cls = g.cls /\ f.type_key = g.type_key /\ f.entry_id = g.entry_id
                   /\ f.position = g.position) => f.id = g.id

\* remove_entry_field of one thread deleted the field that another thread had
\* stored and not renumbered, together with the field it was called for
C26_RemoveTookPendingField ==
    \E t \in Threads :
       /\ threads[t].op = "remove_entry_field"
       /\ threads[t].pending # {}
       /\ Cardinality(threads[t].seen \ threads[t].left) = 2

-----------------------------------------------------------------------------
(* Claims about add_subtag (SpecTraverse) *)

\* C27: for tags p and c of the library, add_subtag(p, c) returns False and
\* leaves tag_subtags as it was when p = c or the edge (p, c) exists;
\* otherwise it returns True and tag_subtags is what it was plus the edge (p, c)
C27_AddSubtagInsertsOneEdgeOrNothing ==
    res.op = "add_subtag" =>
       LET edge == [parent_id |-> res.base_id, child_id |-> res.new_tag_id]
       IN  IF res.base_id = res.new_tag_id \/ edge \in res.before
           THEN res.ret = "False" /\ tag_subtags = res.before
           ELSE /\ res.ret = "True"
                /\ tag_subtags = res.before \cup {edge}
                /\ edge \notin res.before

\* an edge was inserted next to the edges that were there
C27_EdgeInsertedNextToOthers ==
    /\ res.op = "add_subtag"
    /\ res.ret = "True"
    /\ res.before # {}

\* add_subtag was called for an edge that exists and returned False
C27_ExistingEdgeRejected ==
    /\ res.op = "add_subtag"
    /\ res.ret = "False"
    /\ [parent_id |-> res.base_id, child_id |-> res.new_tag_id] \in res.before

-----------------------------------------------------------------------------
(* SpecRoundTrip: entries are added with fields and searched by their id *)

\* the text without the second of two slashes in a row
RECURSIVE collapse(_)
collapse(s) ==
    IF Len(s) < 2 THEN s
    ELSE IF s[1] = "/" /\ s[2] = "/" THEN collapse(Tail(s))
    ELSE <<s[1]>> \o collapse(Tail(s))

\* pathlib.Path(s), as the text that str() gives and the column stores:
\* repeated slashes and a trailing slash are dropped
Path(s) ==
    LET c == collapse(s)
    IN  IF Len(c) > 1 /\ c[Len(c)] = "/" THEN SubSeq(c, 1, Len(c) - 1) ELSE c

\* PathType.process_result_value: Path(value) of the stored text
process_result_value(value) == Path(value)

\* a field object of a new Entry, not stored yet
ItemField(cls, type_key, value, tag_ids) ==
    [cls |-> cls, type_key |-> type_key, position |-> 0, value |-> value,
     tags |-> tag_ids]

\* the field lists of new entries: none, a text line, a tag box with a tag, all
\* variants with a repeated text line, two tag boxes of one key, and a tag box
\* with a tag that was deleted
RoundTripFields ==
    {<<>>,
     <<ItemField("TextField", "TITLE", <<"x">>, {})>>,
     <<ItemField("TagBoxField", "TAGS", <<>>, {DogId})>>,
     <<ItemField("TextField", "TITLE", <<"x">>, {}),
       ItemField("TagBoxField", "TAGS", <<>>, {TAG_FAVORITE, DogId}),
       ItemField("TextField", "TITLE", <<"x">>, {})>>,
     <<ItemField("TagBoxField", "TAGS", <<>>, {}),
       ItemField("TagBoxField", "TAGS", <<>>, {})>>,
     <<ItemField("TagBoxField", "TAGS", <<>>, {DogId + 1})>>}

\* Entry(path=Path(...), folder=folder, fields=fields)
RoundTripItems ==
    {[path |-> Path(p), folder_id |-> 1, fields |-> f] :
       p \in {<<"c", ".", "t">>, <<"d", "/", "/", "e", "/">>},
       f \in RoundTripFields}

RoundTripItemLists ==
    {<<i>> : i \in RoundTripItems} \cup
    {<<i, j>> : i \in {x \in RoundTripItems : Len(x.fields) = 3},
                j \in {x \in RoundTripItems : Len(x.fields) = 1}}

\* FilterState(id=...)
IdRequests ==
    {FilterState(0, MaxPageSize, {id}, {}, <<>>, <<>>, <<>>) :
       id \in 1 .. (MaxEntryId + 1)}

\* an Entry of SearchResult.items: the row with its path as Path and with the
\* fields and their tags that the options of the statement load
loaded(entry_id) ==
    LET e == entry_of(entry_id)
    IN  [id |-> e.id, path |-> process_result_value(e.path),
         fields |-> {[id |-> f.id, cls |-> f.cls, type_key |-> f.type_key,
                      position |-> f.position, value |-> f.value,
                      tags |-> IF f.cls = "TagBoxField"
                               THEN {r.tag_id : r \in {x \in tag_fields :
                                                         x.field_id = f.id}}
                               ELSE {}] :
                       f \in {g \in fields : g.entry_id = entry_id}}]

NextRoundTrip ==
    \/ AddEntries(RoundTripItemLists)
    \/ search_library(IdRequests)
    \/ SetPrefs({{}, {<<".", "t">>}})
    \/ Return

SpecRoundTrip == InitLibrary /\ [][NextRoundTrip]_vars

\* a loaded field without its id
Given(f) ==
    [cls |-> f.cls, type_key |-> f.type_key, position |-> f.position,
     value |-> f.value, tags |-> f.tags]

\* the loaded fields are the given fields, each as often as it was given
SameFields(rows, given) ==
    /\ Cardinality(rows) = Len(given)
    /\ \A i \in DOMAIN given :
          Cardinality({f \in rows : Given(f) = given[i]}) =
          Cardinality({j \in DOMAIN given : given[j] = given[i]})

-----------------------------------------------------------------------------
(* SpecFieldTag: tags are added to tag boxes that exist or are created *)

\* the Tag objects given to add_field_tag: tags loaded from the library, a tag
\* that was deleted after it was loaded, and new tags, one with a name in use
FieldTagObjects ==
    {t \in LoadedTags : t.id \in {{TAG_FAVORITE}, {DogId}}} \cup
    {TagObject({DogId + 1}, <<"c">>, FALSE), TagObject({}, <<"c">>, TRUE),
     TagObject({}, dog, TRUE)}

NextFieldTag ==
    \/ AddFieldTag({1, 2, 3}, FieldTagObjects, {"TAGS"})
    \/ RemoveFieldTag({1, 2}, {TAG_FAVORITE, DogId}, {"TAGS"})
    \/ Return

SpecFieldTag == InitLibrary /\ [][NextFieldTag]_vars

\* the tag box of the call's entry and key before the call, if there was one
BoxBefore ==
    {f \in res.before.fields : /\ f.cls = "TagBoxField"
                               /\ f.entry_id = res.entry_id
                               /\ f.type_key = res.field_key}

\* the tag of the call was in that tag box before the call
TagWasInBox ==
    \E f \in BoxBefore, r \in res.before.tag_fields :
       r.field_id = f.id /\ r.tag_id \in res.tag.id

\* C29: add_field_tag succeeds as a whole or changes nothing: a tag that is in
\* the tag box gives False and the same tag set; without a tag box of the key
\* SKIP gives False, RAISE raises, and CREATE stores the tag box together with
\* the tag or, when the tag cannot be added, neither
C29_AddFieldTagAllOrNothing ==
    res.op = "add_field_tag" =>
       /\ res.ret \in {"True", "False", "ValueError"}
       /\ res.ret # "True" =>
             /\ fields = res.before.fields
             /\ tag_fields = res.before.tag_fields
             /\ tags = res.before.tags
       /\ TagWasInBox => res.ret = "False"
       /\ (BoxBefore = {} /\ res.missing_field = "SKIP") => res.ret = "False"
       /\ (BoxBefore = {} /\ res.missing_field = "RAISE") => res.ret = "ValueError"
       /\ res.ret = "True" =>
             \E f \in fields, r \in tag_fields :
                /\ f.cls = "TagBoxField"
                /\ f.entry_id = res.entry_id
                /\ f.type_key = res.field_key
                /\ r.field_id = f.id
                /\ \E t \in tags : t.id = r.tag_id /\ t.name = res.tag.name
                /\ fields = res.before.fields \cup {f}
                /\ tag_fields = res.before.tag_fields \cup {r}
                /\ r \notin res.before.tag_fields
                /\ (f \in res.before.fields) = (BoxBefore # {})
                /\ BoxBefore = {} => res.missing_field = "CREATE"

\* CREATE on an entry without tag box, with a tag that cannot be added
C29_CreateRolledBack ==
    /\ res.op = "add_field_tag"
    /\ res.missing_field = "CREATE"
    /\ BoxBefore = {}
    /\ \E e \in entries : e.id = res.entry_id
    /\ res.ret = "False"

\* CREATE stored a tag box together with its first tag
C29_CreatedWithTag ==
    /\ res.op = "add_field_tag"
    /\ res.missing_field = "CREATE"
    /\ BoxBefore = {}
    /\ res.ret = "True"

\* the tag was in the tag box already
C29_TagAlreadyInBox ==
    /\ res.op = "add_field_tag"
    /\ TagWasInBox
    /\ res.ret = "False"

-----------------------------------------------------------------------------
(* SpecThumbs: the thumbnail queue of the Qt driver and its Consumer threads *)

library_idle == <<db, storage, lib, pc, res, traversal, engine, files, concurrent,
                  history>>

\* the jobs of the queue, without the markers
jobs_queued == Len(SelectSeq(thumb_job_queue, LAMBDA j : j # MARKER_QUIT))

\* shutdown: "for _ in self.thumb_threads" puts this many markers
markers_one_short == Cardinality(DOMAIN thumb_threads) - 1

markers_needed == Cardinality(DOMAIN thumb_threads)

\* update_thumbs, under the mutex of the queue: the jobs that wait are dropped
UpdateThumbsClear ==
    /\ driver.pc = "running"
    /\ thumb_job_queue' = <<>>
    /\ UNCHANGED <<library_idle, thumb_threads, driver>>

\* update_thumbs, for an entry of the page: a render job is put on the queue
UpdateThumbsPut ==
    /\ driver.pc = "running"
    /\ jobs_queued < MaxJobs
    /\ thumb_job_queue' = Append(thumb_job_queue, "render")
    /\ UNCHANGED <<library_idle, thumb_threads, driver>>

\* shutdown is entered: from handleSIGTERM inside app.exec(), or in run after
\* app.exec() has returned (also after the QApplication.quit() of a shutdown
\* by SIGTERM)
ShutdownBegin ==
    /\ \E by \in IF driver.pc = "running" THEN {"SIGTERM", "exit"}
                 ELSE IF driver.pc = "quit" THEN {"exit"}
                 ELSE {} :
          driver' = [pc |-> "put", put |-> 0, by |-> by,
                     jobs_left |-> jobs_queued]
    /\ UNCHANGED <<library_idle, thumb_job_queue, thumb_threads>>

\* shutdown: one MARKER_QUIT is put for the next thread of thumb_threads
ShutdownPut ==
    /\ driver.pc = "put"
    /\ driver.put < markers_needed
    /\ thumb_job_queue' = Append(thumb_job_queue, MARKER_QUIT)
    /\ driver' = [driver EXCEPT !.put = @ + 1]
    /\ UNCHANGED <<library_idle, thumb_threads>>

\* shutdown: the markers are put, the main thread waits for the threads
ShutdownWait ==
    /\ driver.pc = "put"
    /\ driver.put >= markers_needed
    /\ driver' = [driver EXCEPT !.pc = "wait"]
    /\ UNCHANGED <<library_idle, thumb_job_queue, thumb_threads>>

\* shutdown: thread.wait() has returned for every thread; QApplication.quit()
ShutdownQuit ==
    /\ driver.pc = "wait"
    /\ \A t \in DOMAIN thumb_threads : thumb_threads[t].pc = "done"
    /\ driver' = [driver EXCEPT
                    !.pc = IF driver.by = "SIGTERM" THEN "quit" ELSE "exited"]
    /\ UNCHANGED <<library_idle, thumb_job_queue, thumb_threads>>

\* Consumer.run: queue.get() returns the first item; MARKER_QUIT breaks the loop
ConsumerGet(t) ==
    /\ thumb_threads[t].pc = "get"
    /\ thumb_job_queue # <<>>
    /\ thumb_job_queue' = Tail(thumb_job_queue)
    /\ thumb_threads' = [thumb_threads EXCEPT ![t] =
         IF Head(thumb_job_queue) = MARKER_QUIT
         THEN [@ EXCEPT !.pc = "done", !.markers = @ + 1]
         ELSE [@ EXCEPT !.pc = "run",
                        !.late = \E u \in DOMAIN thumb_threads :
                                    thumb_threads[u].markers > 0]]
    /\ UNCHANGED <<library_idle, driver>>

\* Consumer.run: job[0](*job[1]) returns or raises RuntimeError, which is
\* passed over; the loop goes on with the next get
ConsumerRun(t) ==
    /\ thumb_threads[t].pc = "run"
    /\ \E outcome \in {"returned", "RuntimeError"} :
          thumb_threads' = [thumb_threads EXCEPT ![t].pc = "get"]
    /\ UNCHANGED <<library_idle, thumb_job_queue, driver>>

NextThumbs ==
    \/ UpdateThumbsClear
    \/ UpdateThumbsPut
    \/ ShutdownBegin
    \/ ShutdownPut
    \/ ShutdownWait
    \/ ShutdownQuit
    \/ \E t \in Consumers : ConsumerGet(t)
    \/ \E t \in Consumers : ConsumerRun(t)

SpecThumbs == InitLibrary /\ [][NextThumbs]_vars

\* every Consumer is a thread of its own that the system keeps running: a
\* get on a queue that holds an item returns, and a job ends
SpecThumbsFair ==
    /\ SpecThumbs
    /\ \A t \in Consumers : WF_vars(ConsumerGet(t)) /\ WF_vars(ConsumerRun(t))

\* shutdown has put its markers and waits for the threads
MarkersPut == driver.pc = "wait"

\* every Consumer has left its run loop
AllConsumersDone == \A t \in Consumers : thumb_threads[t].pc = "done"

\* no job of the queue is behind a marker, no Consumer took a job after a
\* marker was taken, and a Consumer that left its loop took one marker
MarkersTakenLast ==
    /\ \A i, j \in DOMAIN thumb_job_queue :
          (i < j /\ thumb_job_queue[i] = MARKER_QUIT) =>
             thumb_job_queue[j] = MARKER_QUIT
    /\ \A t \in Consumers :
          /\ ~thumb_threads[t].late
          /\ thumb_threads[t].markers = IF thumb_threads[t].pc = "done" THEN 1 ELSE 0
    /\ driver.pc \in {"quit", "exited"} => AllConsumersDone

====
